---- MODULE Spec2Model ----
(***************************************************************************)
(* x402-sveltekit: the payment hook (paymentHook, paymentHookFromHTTPServer,*)
(* paymentHookFromConfig), its one-time initialization and the per-request  *)
(* payment lifecycle (handleDynamicRoute, handleStaticRouteVerified,        *)
(* verifyAndBuildPaymentInfo, handleSettlement).                            *)
(*                                                                          *)
(* Strings that the code takes apart (route keys, methods, paths) are       *)
(* sequences of one-character strings.  Every request is a task that        *)
(* suspends at the awaits of the code; one action is the synchronous code   *)
(* between two awaits.  The collaborators (resource server, HTTP resource   *)
(* server, policy function, downstream handler) answer nondeterministically.*)
(***************************************************************************)
EXTENDS Integers, Sequences, FiniteSets, TLC

VARIABLES call, cfg, env, hook, initState, initCalls, initLog, req

vars == <<call, cfg, env, hook, initState, initCalls, initLog, req>>

(* ------------------------------ bounds --------------------------------- *)

\* number of concurrent requests sent to one hook instance (Spec)
MaxReq == 2

\* number of requests when every answer of every collaborator is tried (SpecFull)
FullReq == 1

\* longest network identifier and longest route key given to the helpers
MaxNetLen == 3

MaxKeyLen == 4

\* most EVM entries of a chains configuration, most fractional digits of a price
MaxEvm == 2

MaxFrac == 11

\* most key=value pairs of a query string
MaxPairs == 3

\* longest route pattern and longest request path given to pathMatches
MaxPathLen == 3

\* number of concurrent requests when every started call returns (SpecLive)
LiveReq == 2

(* ------------------------------ strings -------------------------------- *)

GET == <<"G", "E", "T">>

POST == <<"P", "O", "S", "T">>

STAR == <<"*">>

\* String.prototype.toUpperCase on the letters used by the route keys
UpperChar(c) ==
    CASE c = "g" -> "G"
      [] c = "e" -> "E"
      [] c = "t" -> "T"
      [] c = "p" -> "P"
      [] c = "o" -> "O"
      [] c = "s" -> "S"
      [] OTHER -> c

toUpperCase(s) == [i \in 1..Len(s) |-> UpperChar(s[i])]

\* key.split(' '): the pieces between the spaces, empty pieces included
RECURSIVE SplitFrom(_, _, _)
SplitFrom(s, i, cur) ==
    IF i > Len(s) THEN <<cur>>
    ELSE IF s[i] = " " THEN <<cur>> \o SplitFrom(s, i + 1, <<>>)
    ELSE SplitFrom(s, i + 1, Append(cur, s[i]))

split(s) == SplitFrom(s, 1, <<>>)

endsWithStar(s) == Len(s) > 0 /\ s[Len(s)] = "*"

startsWith(s, prefix) ==
    /\ Len(prefix) <= Len(s)
    /\ \A i \in 1..Len(prefix) : s[i] = prefix[i]

\* pattern.slice(0, -1)
sliceDropLast(s) == SubSeq(s, 1, Len(s) - 1)

(* ------------------------------ routing -------------------------------- *)

\* variant: the method is stored as it is written in the key
parseRouteKeyKeepsCase(key) ==
    LET parts == split(key)
    IN  IF Len(parts) = 2
        THEN [method |-> parts[1], pathPattern |-> parts[2]]
        ELSE [method |-> STAR, pathPattern |-> key]

parseRouteKey(key) ==
    LET parts == split(key)
    IN  IF Len(parts) = 2
        THEN [method |-> toUpperCase(parts[1]), pathPattern |-> parts[2]]
        ELSE [method |-> STAR, pathPattern |-> key]

\* variant: the wildcard marker is not stripped from the prefix
pathMatchesKeepsMarker(pattern, pathname) ==
    \/ pattern = pathname
    \/ /\ endsWithStar(pattern)
       /\ startsWith(pathname, pattern)

pathMatches(pattern, pathname) ==
    \/ pattern = pathname
    \/ /\ endsWithStar(pattern)
       /\ startsWith(pathname, sliceDropLast(pattern))

\* The factory's pass over the configured route map (a sequence of
\* [key, dynamic] in insertion order; dynamic is isDynamic(cfg) of the
\* entry): the key of every dynamic entry is parsed once, when the hook is
\* made; the key of a static entry is not parsed.
partitionRoutes(routes) ==
    [i \in 1..Len(routes) |->
        IF routes[i].dynamic
        THEN [dynamic     |-> TRUE,
              method      |-> parseRouteKey(routes[i].key).method,
              pathPattern |-> parseRouteKey(routes[i].key).pathPattern]
        ELSE [dynamic |-> FALSE, method |-> <<>>, pathPattern |-> <<>>]]

\* routes is the table the factory made.
\* dynamicRoutesByMethod.get(method): indices of the dynamic entries whose
\* parsed method is `method`, in configuration order.
RECURSIVE DynIdxFrom(_, _, _)
DynIdxFrom(routes, method, i) ==
    IF i > Len(routes) THEN <<>>
    ELSE IF routes[i].dynamic /\ routes[i].method = method
         THEN <<i>> \o DynIdxFrom(routes, method, i + 1)
         ELSE DynIdxFrom(routes, method, i + 1)

dynamicRoutesByMethod(routes, method) == DynIdxFrom(routes, method, 1)

hasStaticRoutes(routes) == \E i \in 1..Len(routes) : ~routes[i].dynamic

hasDynamicRoutes(routes) == \E i \in 1..Len(routes) : routes[i].dynamic

\* first entry of the list whose pattern matches, 0 when none does
RECURSIVE FirstMatch(_, _, _, _)
FirstMatch(routes, idxs, pathname, k) ==
    IF k > Len(idxs) THEN 0
    ELSE IF pathMatches(routes[idxs[k]].pathPattern, pathname)
         THEN idxs[k]
         ELSE FirstMatch(routes, idxs, pathname, k + 1)

\* variant: one list of all dynamic entries in configuration order
findDynamicRouteConfigOrder(routes, method, pathname) ==
    LET hits == { i \in 1..Len(routes) :
                    /\ routes[i].dynamic
                    /\ routes[i].method \in {method, STAR}
                    /\ pathMatches(routes[i].pathPattern, pathname) }
    IN  IF hits = {} THEN 0 ELSE CHOOSE i \in hits : \A k \in hits : i <= k

\* index of the matching dynamic entry, 0 for null
findDynamicRoute(routes, method, pathname) ==
    LET m == FirstMatch(routes, dynamicRoutesByMethod(routes, method), pathname, 1)
    IN  IF m # 0 THEN m
        ELSE FirstMatch(routes, dynamicRoutesByMethod(routes, STAR), pathname, 1)

(* ------------------------- network identifiers ------------------------- *)

\* every string of at most n characters of the alphabet A
StringsUpTo(A, n) == UNION { [1..k -> A] : k \in 0..n }

Lower ==
    {"a", "b", "c", "d", "e", "f", "g", "h", "i", "j", "k", "l", "m",
     "n", "o", "p", "q", "r", "s", "t", "u", "v", "w", "x", "y", "z"}

Upper ==
    {"A", "B", "C", "D", "E", "F", "G", "H", "I", "J", "K", "L", "M",
     "N", "O", "P", "Q", "R", "S", "T", "U", "V", "W", "X", "Y", "Z"}

Digit == {"0", "1", "2", "3", "4", "5", "6", "7", "8", "9"}

\* the character classes of NETWORK_PATTERN
NamespaceClass == Lower \cup Upper \cup Digit \cup {"-"}

ReferenceClass == Lower \cup Upper \cup Digit \cup {"+", "/", "=", "_", "-"}

\* variant: the reference may be empty ([...]* for [...]+)
PatternStepEmptyReference(state, c) ==
    CASE state = "^" /\ c \in NamespaceClass -> "namespace"
      [] state = "namespace" /\ c \in NamespaceClass -> "namespace"
      [] state = "namespace" /\ c = ":" -> "reference"
      [] state = ":" /\ c \in ReferenceClass -> "reference"
      [] state = "reference" /\ c \in ReferenceClass -> "reference"
      [] OTHER -> "no match"

\* one character of the anchored match of /^[a-zA-Z0-9-]+:[a-zA-Z0-9+/=_-]+$/:
\* the position in the pattern after reading c
PatternStep(state, c) ==
    CASE state = "^" /\ c \in NamespaceClass -> "namespace"
      [] state = "namespace" /\ c \in NamespaceClass -> "namespace"
      [] state = "namespace" /\ c = ":" -> ":"
      [] state = ":" /\ c \in ReferenceClass -> "reference"
      [] state = "reference" /\ c \in ReferenceClass -> "reference"
      [] OTHER -> "no match"

RECURSIVE PatternRun(_, _, _)
PatternRun(s, i, state) ==
    IF i > Len(s) THEN state
    ELSE PatternRun(s, i + 1, PatternStep(state, s[i]))

\* NETWORK_PATTERN.test(network)
NETWORK_PATTERN(network) == PatternRun(network, 1, "^") = "reference"

\* the message is the input between two fixed pieces of text
networkValidationError(network) ==
    <<"Invalid network format: \"">> \o network
      \o <<"\". Expected format: \"protocol:chainId\" (e.g., \"eip155:8453\")">>

\* validateNetwork returns, or throws an Error with the message
validateNetwork(network) ==
    IF ~NETWORK_PATTERN(network)
    THEN [threw |-> TRUE, message |-> networkValidationError(network)]
    ELSE [threw |-> FALSE, message |-> <<>>]

\* characters of the identifiers tried: one of each class and some of none
NetAlphabet == {"a", "Z", "9", "-", ":", "+", "/", "=", "_", " ", "."}

NetworkInputs == StringsUpTo(NetAlphabet, MaxNetLen)

\* characters of the route keys tried
KeyAlphabet == {"g", "T", " ", "/"}

RouteKeyInputs == StringsUpTo(KeyAlphabet, MaxKeyLen)

(* ------------------------------- prices -------------------------------- *)

\* A price is a number: NaN, an infinity, or a finite decimal given by its
\* sign, integer part and fractional digits (most significant first).
MAX_PRICE_USD == 1000000000

\* the digits priceUsd.toFixed(10) keeps
FIXED_DIGITS == 10

DigitChars == <<"0", "1", "2", "3", "4", "5", "6", "7", "8", "9">>

Zeros(k) == [i \in 1..k |-> 0]

Nines(k) == [i \in 1..k |-> 9]

NaN == [kind |-> "NaN", neg |-> FALSE, int |-> 0, frac |-> <<>>]

Infinity(neg) == [kind |-> "Infinity", neg |-> neg, int |-> 0, frac |-> <<>>]

Finite(neg, int, frac) == [kind |-> "finite", neg |-> neg, int |-> int, frac |-> frac]

IsZero(p) == p.int = 0 /\ \A i \in 1..Len(p.frac) : p.frac[i] = 0

\* priceUsd < 0: false for NaN and for -0
lessThanZero(p) ==
    \/ p.kind = "Infinity" /\ p.neg
    \/ p.kind = "finite" /\ p.neg /\ ~IsZero(p)

\* priceUsd > MAX_PRICE_USD: false for NaN
greaterThanMax(p) ==
    \/ p.kind = "Infinity" /\ ~p.neg
    \/ /\ p.kind = "finite" /\ ~p.neg
       /\ \/ p.int > MAX_PRICE_USD
          \/ p.int = MAX_PRICE_USD /\ \E i \in 1..Len(p.frac) : p.frac[i] # 0

RECURSIVE IntDigits(_)
IntDigits(n) == IF n < 10 THEN <<n>> ELSE Append(IntDigits(n \div 10), n % 10)

\* the characters of a sequence of digits
Chars(ds) == [i \in 1..Len(ds) |-> DigitChars[ds[i] + 1]]

\* a digit sequence plus one unit in its last place
Increment(ds) ==
    LET below == { j \in 1..Len(ds) : ds[j] # 9 }
    IN  IF below = {} THEN [digits |-> Zeros(Len(ds)), carry |-> 1]
        ELSE LET j == CHOOSE j \in below : \A k \in below : k <= j
             IN  [digits |-> [i \in 1..Len(ds) |->
                                IF i < j THEN ds[i] ELSE IF i = j THEN ds[j] + 1 ELSE 0],
                  carry |-> 0]

\* Number.prototype.toFixed(10) of a price that is NaN or in [0, 1e9]: the
\* value rounded to ten fractional digits, halves upwards, always written
\* with its ten digits
toFixed(p) ==
    IF p.kind = "NaN" THEN <<"N", "a", "N">>
    ELSE LET kept    == [i \in 1..FIXED_DIGITS |->
                           IF i <= Len(p.frac) THEN p.frac[i] ELSE 0]
             up      == Len(p.frac) > FIXED_DIGITS /\ p.frac[FIXED_DIGITS + 1] >= 5
             rounded == IF up THEN Increment(kept) ELSE [digits |-> kept, carry |-> 0]
         IN  Chars(IntDigits(p.int + rounded.carry)) \o <<".">> \o Chars(rounded.digits)

\* /\.?0+$/ matches at position i of s
TrailingZerosAt(s, i) ==
    LET j == IF s[i] = "." THEN i + 1 ELSE i
    IN  j <= Len(s) /\ \A k \in j..Len(s) : s[k] = "0"

\* fixed.replace(/\.?0+$/, ''): the leftmost match is removed
stripTrailingZeros(s) ==
    LET starts == { i \in 1..Len(s) : TrailingZerosAt(s, i) }
    IN  IF starts = {} THEN s
        ELSE SubSeq(s, 1, (CHOOSE i \in starts : \A k \in starts : i <= k) - 1)

\* formatPrice returns the price string or throws
formatPrice(priceUsd) ==
    IF lessThanZero(priceUsd)
    THEN [threw |-> TRUE, message |-> <<"Price must be non-negative">>, value |-> <<>>]
    ELSE IF greaterThanMax(priceUsd)
    THEN [threw |-> TRUE,
          message |-> <<"Price exceeds maximum supported value of $1000000000">>,
          value |-> <<>>]
    ELSE [threw |-> FALSE, message |-> <<>>,
          value |-> <<"$">> \o stripTrailingZeros(toFixed(priceUsd))]

\* the fractional parts tried: none, one digit behind k zeros, k nines
FracInputs ==
    {<<>>} \cup { Zeros(k) \o <<d>> : k \in 0..(MaxFrac - 1), d \in {1, 5, 9} }
           \cup { Nines(k) : k \in 1..MaxFrac }

IntInputs == {0, 1, 10, MAX_PRICE_USD - 1, MAX_PRICE_USD, MAX_PRICE_USD + 1}

PriceInputs ==
    { Finite(neg, int, frac) : neg \in BOOLEAN, int \in IntInputs, frac \in FracInputs }
      \cup {NaN, Infinity(FALSE), Infinity(TRUE)}

\* 0.01
Cent == Finite(FALSE, 0, <<0, 1>>)

(* ------------------------------- chains -------------------------------- *)

\* a chain entry {payTo, network}; set is false for a null entry
Chain(payTo, network) == [set |-> TRUE, payTo |-> payTo, network |-> network]

NoChain == [set |-> FALSE, payTo |-> "", network |-> <<>>]

EvmEntries ==
    { Chain("0xA", <<"e", ":", "1">>), Chain("0xB", <<"e", ":", "2">>),
      Chain("0xC", <<"e", "3">>) }

SolanaEntries == { NoChain, Chain("So1", <<"s", ":", "m">>), Chain("So2", <<"s", ":">>) }

AlgorandEntries == { NoChain, Chain("AL1", <<"a", ":", "=">>), Chain("AL2", <<":", "a">>) }

ChainsInputs ==
    [evm : StringsUpTo(EvmEntries, MaxEvm), solana : SolanaEntries,
     algorand : AlgorandEntries]

OneEvm == [evm |-> <<Chain("0xA", <<"e", ":", "1">>)>>, solana |-> NoChain,
           algorand |-> NoChain]

OneBadEvm == [evm |-> <<Chain("0xC", <<"e", "3">>)>>, solana |-> NoChain,
              algorand |-> NoChain]

\* what a call has built so far, or the error it threw
NoOptions == [threw |-> FALSE, message |-> <<>>, options |-> <<>>]

Threw(message) == [threw |-> TRUE, message |-> message, options |-> <<>>]

\* variant: an entry with an invalid network is left out and the call goes on
pushEntrySkipsInvalid(acc, entry, priceStr) ==
    IF acc.threw THEN acc
    ELSE IF validateNetwork(entry.network).threw THEN acc
    ELSE [acc EXCEPT !.options =
            Append(@, [scheme |-> "exact", price |-> priceStr,
                       network |-> entry.network, payTo |-> entry.payTo])]

\* validateNetwork(entry.network); options.push({...}) unless an earlier
\* entry has thrown already
pushEntry(acc, entry, priceStr) ==
    IF acc.threw THEN acc
    ELSE IF validateNetwork(entry.network).threw
    THEN Threw(validateNetwork(entry.network).message)
    ELSE [acc EXCEPT !.options =
            Append(@, [scheme |-> "exact", price |-> priceStr,
                       network |-> entry.network, payTo |-> entry.payTo])]

\* for (const entry of chains.evm)
RECURSIVE pushEvm(_, _, _, _)
pushEvm(acc, evm, i, priceStr) ==
    IF i > Len(evm) THEN acc
    ELSE pushEvm(pushEntry(acc, evm[i], priceStr), evm, i + 1, priceStr)

\* variant: the Algorand entry is pushed before the Solana entry
buildPaymentOptionsAlgorandFirst(chains, priceUsd) ==
    LET f  == formatPrice(priceUsd)
        a1 == pushEvm(NoOptions, chains.evm, 1, f.value)
        a2 == IF chains.algorand.set THEN pushEntry(a1, chains.algorand, f.value) ELSE a1
        a3 == IF chains.solana.set THEN pushEntry(a2, chains.solana, f.value) ELSE a2
    IN  IF f.threw THEN Threw(f.message) ELSE a3

buildPaymentOptions(chains, priceUsd) ==
    LET f  == formatPrice(priceUsd)
        a1 == pushEvm(NoOptions, chains.evm, 1, f.value)
        a2 == IF chains.solana.set THEN pushEntry(a1, chains.solana, f.value) ELSE a1
        a3 == IF chains.algorand.set THEN pushEntry(a2, chains.algorand, f.value) ELSE a2
    IN  IF f.threw THEN Threw(f.message) ELSE a3

\* variant: the EVM family is tested like the other two (an array is truthy)
getEnabledChainNamesEvmTruthy(chains) ==
    <<"evm">>
      \o (IF chains.solana.set THEN <<"solana">> ELSE <<>>)
      \o (IF chains.algorand.set THEN <<"algorand">> ELSE <<>>)

getEnabledChainNames(chains) ==
    (IF Len(chains.evm) > 0 THEN <<"evm">> ELSE <<>>)
      \o (IF chains.solana.set THEN <<"solana">> ELSE <<>>)
      \o (IF chains.algorand.set THEN <<"algorand">> ELSE <<>>)

(* --------------------------- error messages ---------------------------- *)

SERVICE_UNAVAILABLE == "Payment service temporarily unavailable"

INVALID_SIGNATURE_HEADER == "Invalid payment signature header"

NO_MATCHING_REQUIREMENTS == "No matching payment requirements"

VERIFICATION_FAILED == "Payment verification failed"

LOG_INIT_FAILED == "[x402] Failed to initialize HTTP resource server:"

LOG_SETTLEMENT_FAILED == "[x402] Settlement failed:"

LOG_SETTLEMENT_ERROR == "[x402] Settlement error:"

LOG_BODY_CONSUMED == "[x402] Warning: Response body has already been consumed. Settlement response may have empty body."

(* ------------------------ inputs and their domains --------------------- *)

\* header values: ABSENT is headers.get() = null, "" is a header that is
\* present with an empty value
ABSENT == "absent"

SigVals == {ABSENT, "", "bad", "tokA"}

XPayVals == {ABSENT, "tokB"}

\* decodePaymentSignatureHeader succeeds on these and throws on the rest
Decodable == {"tokA", "tokB"}

\* status of the handler's response: Response.error() has status 0
Statuses == {0, 200, 299, 300, 404}

Networks == {"eip155:8453"}

PathA == <<"/", "a">>

\* the requests sent: GET /a matches the dynamic key "get /a", POST /a
\* matches no dynamic key
Targets ==
    { [method |-> GET, path |-> PathA],
      [method |-> POST, path |-> PathA] }

KeyGetA == <<"g", "e", "t", " ", "/", "a">>

KeyStatic == <<"G", "E", "T", " ", "/", "a">>

KeyWild == <<"/", "w", "*">>

RoutesMixed ==
    << [key |-> KeyStatic, dynamic |-> FALSE],
       [key |-> KeyGetA, dynamic |-> TRUE],
       [key |-> KeyWild, dynamic |-> TRUE] >>

\* a wildcard-method entry ("/a") configured before two entries for GET
\* ("GET /*" and "get /a")
RoutesOrdered ==
    << [key |-> <<"/", "a">>, dynamic |-> TRUE],
       [key |-> <<"G", "E", "T", " ", "/", "*">>, dynamic |-> TRUE],
       [key |-> KeyGetA, dynamic |-> TRUE] >>

RoutesDynamic == << [key |-> KeyGetA, dynamic |-> TRUE] >>

RoutesStatic == << [key |-> KeyStatic, dynamic |-> FALSE] >>

\* the `schemes` option of paymentHookFromConfig: left out, or a list of
\* registrations; the other factories have no such option
NoSchemes == [given |-> FALSE, list |-> <<>>]

OneScheme == [given |-> TRUE, list |-> <<"registerExactEvmScheme">>]

\* the hook instances checked: api is the factory called, enabled the option
\* after its default (true) has been applied
Configs ==
    { [api |-> "paymentHook", enabled |-> TRUE, routes |-> RoutesMixed, schemes |-> NoSchemes],
      [api |-> "paymentHook", enabled |-> TRUE, routes |-> RoutesDynamic, schemes |-> NoSchemes],
      [api |-> "paymentHook", enabled |-> TRUE, routes |-> RoutesOrdered, schemes |-> NoSchemes],
      [api |-> "paymentHook", enabled |-> TRUE, routes |-> RoutesStatic, schemes |-> NoSchemes],
      [api |-> "paymentHook", enabled |-> TRUE, routes |-> <<>>, schemes |-> NoSchemes],
      [api |-> "paymentHook", enabled |-> FALSE, routes |-> RoutesMixed, schemes |-> NoSchemes],
      [api |-> "paymentHookFromHTTPServer", enabled |-> TRUE, routes |-> RoutesStatic,
       schemes |-> NoSchemes],
      [api |-> "paymentHookFromConfig", enabled |-> TRUE, routes |-> RoutesDynamic,
       schemes |-> OneScheme],
      [api |-> "paymentHookFromConfig", enabled |-> TRUE, routes |-> RoutesDynamic,
       schemes |-> NoSchemes],
      [api |-> "paymentHookFromConfig", enabled |-> FALSE, routes |-> RoutesDynamic,
       schemes |-> OneScheme],
      [api |-> "paymentHookFromConfig", enabled |-> FALSE, routes |-> RoutesDynamic,
       schemes |-> NoSchemes] }

FullConfigs ==
    { [api |-> "paymentHook", enabled |-> TRUE, routes |-> RoutesMixed, schemes |-> NoSchemes],
      [api |-> "paymentHook", enabled |-> TRUE, routes |-> <<>>, schemes |-> NoSchemes],
      [api |-> "paymentHook", enabled |-> FALSE, routes |-> RoutesMixed, schemes |-> NoSchemes],
      [api |-> "paymentHookFromHTTPServer", enabled |-> TRUE, routes |-> RoutesStatic,
       schemes |-> NoSchemes] }

(* ------------------------------ responses ------------------------------ *)

NoResp == [set |-> FALSE, status |-> 0, bodyUsed |-> FALSE]

NoInfo == [set |-> FALSE, payer |-> "", network |-> "", transaction |-> ""]

NoOut == [kind |-> "none", status |-> 0, error |-> "", body |-> "", hdrs |-> {}]

create503Response ==
    [kind |-> "503", status |-> 503, error |-> SERVICE_UNAVAILABLE,
     body |-> "json", hdrs |-> {"Content-Type"}]

\* create402Response(createPaymentRequiredResponse(requirements, info, error))
create402Response(error) ==
    [kind |-> "402", status |-> 402, error |-> error,
     body |-> "json", hdrs |-> {"Content-Type", "Payment-Required"}]

\* the handler's response handed back as it is
Unmodified(resp) ==
    [kind |-> "handler", status |-> resp.status, error |-> "",
     body |-> "handler", hdrs |-> {}]

\* new Response(clonedResponse.body, {status, statusText, headers: newHeaders})
Settled(resp, added) ==
    [kind |-> "settled", status |-> resp.status, error |-> "",
     body |-> "handler", hdrs |-> added]

\* variant: every body goes through JSON.stringify
paymentErrorToResponseStringifiesAll(result) ==
    [kind |-> "paymentError", status |-> result.status, error |-> "",
     body |-> "JSON.stringify", hdrs |-> {"result.headers"}]

\* body of the payment-error result: "undefined", "null", "string", "object"
paymentErrorToResponse(result) ==
    [kind |-> "paymentError", status |-> result.status, error |-> "",
     body |-> IF result.body \in {"undefined", "null"} THEN "empty"
              ELSE IF result.body = "string" THEN "string"
              ELSE "JSON.stringify",
     hdrs |-> {"result.headers"}]

Thrown == [kind |-> "exception", status |-> 0, error |-> "", body |-> "", hdrs |-> {}]

(* --------------------------- proof extraction -------------------------- *)

\* createRequestContext(event).paymentHeader; ABSENT is undefined
createRequestContext(sig, xpay) == IF sig # ABSENT THEN sig ELSE xpay

\* variant: X-Payment is preferred when both headers are present
paymentHeaderPrefersXPayment(sig, xpay) == IF xpay = ABSENT THEN sig ELSE xpay

\* the header extractPaymentPayload reads; ABSENT is null
paymentHeader(sig, xpay) == IF sig = ABSENT THEN xpay ELSE sig

\* extractPaymentPayload: "null", "throw" or the decoded payload
extractPaymentPayload(sig, xpay) ==
    LET h == paymentHeader(sig, xpay)
    IN  IF h = ABSENT \/ h = "" THEN "null"
        ELSE IF h \in Decodable THEN h
        ELSE "throw"

(* ------------------------- collaborator answers ------------------------ *)

UNDEF == "undefined"

\* no error argument given to createPaymentRequiredResponse
NoError == UNDEF

\* dynamicConfig.accepts(eventForAccepts)
AcceptsResults == {"null", "empty", "options", "throw"}

\* resourceServer.verifyPayment
VerifyResults ==
    { [threw |-> TRUE, isValid |-> FALSE, payer |-> UNDEF, invalidReason |-> UNDEF],
      [threw |-> FALSE, isValid |-> TRUE, payer |-> "0xPayer", invalidReason |-> UNDEF],
      [threw |-> FALSE, isValid |-> TRUE, payer |-> UNDEF, invalidReason |-> UNDEF],
      [threw |-> FALSE, isValid |-> FALSE, payer |-> UNDEF, invalidReason |-> "insufficient_funds"],
      [threw |-> FALSE, isValid |-> FALSE, payer |-> UNDEF, invalidReason |-> UNDEF] }

\* resolve(event): a response, or the handler throws; one of the responses
\* comes with its body already read
HandlerResults ==
    [threw : {FALSE}, status : Statuses, bodyUsed : {FALSE}]
      \cup { [threw |-> FALSE, status |-> 200, bodyUsed |-> TRUE],
             [threw |-> TRUE, status |-> 0, bodyUsed |-> FALSE] }

\* resourceServer.settlePayment / httpServer.processSettlement
SettleResults ==
    { [threw |-> TRUE, success |-> FALSE, payer |-> UNDEF, transaction |-> UNDEF, errorReason |-> UNDEF],
      [threw |-> FALSE, success |-> TRUE, payer |-> "0xSettler", transaction |-> "0xtx", errorReason |-> UNDEF],
      [threw |-> FALSE, success |-> TRUE, payer |-> UNDEF, transaction |-> "0xtx", errorReason |-> UNDEF],
      [threw |-> FALSE, success |-> FALSE, payer |-> UNDEF, transaction |-> UNDEF, errorReason |-> "rejected"] }

\* httpServer.processHTTPRequest
\* payer is the payer the verification run inside processHTTPRequest resolved;
\* it is not part of the result the hook is given
ProcessResults ==
    [type : {"payment-error"}, status : {402}, body : {"undefined", "null", "string", "object"},
     network : {""}, payer : {UNDEF}]
      \cup [type : {"payment-verified"}, status : {0}, body : {""}, network : Networks,
             payer : {"0xPayer", UNDEF}]
      \cup [type : {"no-payment-required", "throw"}, status : {0}, body : {""},
             network : {""}, payer : {UNDEF}]

(* ----------------------------- environments ---------------------------- *)

\* env is what the world around the hook does in a run: how many requests
\* are sent, what they ask for and carry, and which answers the policy
\* function, the resource servers and the downstream handler can give.

\* every answer of every collaborator, for requests taken one at a time
FullEnv ==
    [n |-> FullReq, targets |-> Targets, sig |-> SigVals, xpay |-> XPayVals,
     accepts |-> AcceptsResults, build |-> BOOLEAN,
     match |-> Networks \cup {"none"}, verify |-> VerifyResults,
     handler |-> HandlerResults, settle |-> SettleResults,
     process |-> ProcessResults]

\* concurrent requests, each collaborator with one good and one bad answer
LeanEnv ==
    [n |-> MaxReq,
     targets |-> Targets,
     sig |-> {ABSENT, "tokA"}, xpay |-> {ABSENT},
     accepts |-> {"null", "options"}, build |-> {TRUE},
     match |-> Networks,
     verify |-> { v \in VerifyResults : ~v.threw /\ v.payer = UNDEF /\ v.invalidReason = UNDEF },
     handler |-> { h \in HandlerResults : ~h.threw /\ ~h.bodyUsed /\ h.status \in {200, 404} },
     settle |-> { s \in SettleResults : ~s.threw /\ s.payer = UNDEF },
     process |-> { p \in ProcessResults : (p.type = "payment-verified" /\ p.payer = UNDEF)
                                           \/ (p.type = "payment-error" /\ p.body = "string") }]

(* ------------------------------ requests ------------------------------- *)

IdleReq ==
    [pc |-> "idle", method |-> <<>>, path |-> <<>>, staticMatch |-> FALSE,
     dyn |-> 0, mode |-> "", opts |-> "", sig |-> "unread", xpay |-> "unread",
     hdr |-> "unread", payload |-> "", net |-> "", verified |-> "", vpayer |-> "", vreason |-> "",
     settled |-> "", spayer |-> "", reason |-> "", ptype |-> "", pbody |-> "",
     x402 |-> NoInfo, resp |-> NoResp,
     out |-> NoOut, trace |-> <<>>, log |-> <<>>]

\* Fields of a request: pc is the await the task is suspended at; method, path
\* and staticMatch (would a static route match) are the request; sig and xpay
\* are its Payment-Signature and X-Payment headers, drawn when the code first
\* reads them and hdr the one of the two the code took; dyn, mode, opts,
\* payload, net (the matched requirement's network, "none" without a match)
\* are locals of the hook; verified, vpayer, vreason and settled, spayer,
\* reason record what verification and settlement answered, ptype and pbody
\* the type of the processHTTPRequest result and the body of its response;
\* x402 is event.locals.x402;
\* resp is the handler's response and out what the hook returned; trace lists
\* the calls made for the request and log what was logged for it.

\* the hook's promise is fulfilled with `out`
Done(q, out) == [q EXCEPT !.pc = "done", !.out = out]

\* an exception leaves the hook: its promise is rejected
Throw(q) == [q EXCEPT !.pc = "threw", !.out = Thrown]

Call(q, name) == [q EXCEPT !.trace = Append(@, name)]

Log(q, msg, arg) == [q EXCEPT !.log = Append(@, <<msg, arg>>)]

\* resolve(event): the task waits for the downstream handler
Resolve(q, mode) == [Call(q, "resolve") EXCEPT !.pc = "awaitResolve", !.mode = mode]

(* ----------------------------- construction ---------------------------- *)

\* no helper function of the library is being evaluated
NoCall == [fn |-> "none", done |-> FALSE, arg |-> <<>>, result |-> <<>>]

\* variant: the resource server is initialized besides the HTTP server
ConstructInitializesBoth(c) ==
    IF c.api = "paymentHookFromHTTPServer" \/ ~c.enabled
    THEN [initState |-> "none", http |-> 0, rs |-> 0]
    ELSE IF \E i \in 1..Len(c.routes) : ~c.routes[i].dynamic
    THEN [initState |-> "pending", http |-> 1,
          rs |-> IF \E i \in 1..Len(c.routes) : c.routes[i].dynamic THEN 1 ELSE 0]
    ELSE IF c.routes # <<>>
    THEN [initState |-> "pending", http |-> 0, rs |-> 1]
    ELSE [initState |-> "success", http |-> 0, rs |-> 0]

\* paymentHook: the state after the factory has run.  "none" stands for a
\* hook that has no initState (paymentHookFromHTTPServer, enabled = false).
Construct(c) ==
    IF c.api = "paymentHookFromHTTPServer" \/ ~c.enabled
    THEN [initState |-> "none", http |-> 0, rs |-> 0]
    ELSE IF hasStaticRoutes(c.routes)
    THEN [initState |-> "pending", http |-> 1, rs |-> 0]
    ELSE IF hasDynamicRoutes(c.routes)
    THEN [initState |-> "pending", http |-> 0, rs |-> 1]
    ELSE [initState |-> "success", http |-> 0, rs |-> 0]

\* variant: the schemes are registered before `enabled` is looked at
paymentHookFromConfigRegistersFirst(c) ==
    IF c.api # "paymentHookFromConfig" THEN [returned |-> TRUE, registered |-> 0]
    ELSE IF ~c.schemes.given THEN [returned |-> FALSE, registered |-> 0]
    ELSE [returned |-> TRUE, registered |-> Len(c.schemes.list)]

\* paymentHookFromConfig up to its call of paymentHook: did the factory
\* return a hook, and how many scheme.register calls it made.  Iterating
\* over `schemes` when the option was left out throws a TypeError.
paymentHookFromConfig(c) ==
    IF c.api # "paymentHookFromConfig" \/ ~c.enabled
    THEN [returned |-> TRUE, registered |-> 0]
    ELSE IF ~c.schemes.given THEN [returned |-> FALSE, registered |-> 0]
    ELSE [returned |-> TRUE, registered |-> Len(c.schemes.list)]

\* a factory that threw has constructed nothing
NotConstructed == [initState |-> "none", http |-> 0, rs |-> 0]

\* the hook the factory returned: the parsed route table is part of it
MadeHook(c) ==
    LET f == paymentHookFromConfig(c)
    IN  [returned   |-> f.returned,
         registered |-> f.registered,
         routes     |-> IF f.returned /\ c.enabled /\ c.api # "paymentHookFromHTTPServer"
                        THEN partitionRoutes(c.routes) ELSE <<>>]

\* the state after the factory has run, before any request
Constructed ==
    LET made == IF paymentHookFromConfig(cfg).returned THEN Construct(cfg)
                ELSE NotConstructed
    IN  /\ hook = MadeHook(cfg)
        /\ initState = made.initState
        /\ initCalls = [http |-> made.http, rs |-> made.rs]
        /\ call = NoCall
        /\ initLog = <<>>
        /\ req = [r \in 1..env.n |-> IdleReq]

Init ==
    /\ cfg \in Configs
    /\ env = LeanEnv
    /\ Constructed

InitFull ==
    /\ cfg \in FullConfigs
    /\ env = FullEnv
    /\ Constructed

\* initPromise is non-null exactly when an initialize() was started
initPromise == initCalls.http + initCalls.rs > 0

\* httpServer is non-null
httpServer == cfg.api = "paymentHookFromHTTPServer" \/ hasStaticRoutes(cfg.routes)

(* ------------------ the synchronous stretches of the hook -------------- *)

\* variant: the upper end of the 2xx range is not checked
shouldSettleNoUpper(status) == status >= 200

shouldSettle(status) == status >= 200 /\ status < 300

\* handleDynamicRoute up to `await dynamicConfig.accepts(eventForAccepts)`
handleDynamicRoute(q, d) ==
    [Call(q, "accepts") EXCEPT !.dyn = d, !.pc = "awaitAccepts"]

\* variant: requiresPayment is not consulted
staticRouteNoRequiresCheck(q, sig, xpay) ==
    [Call([q EXCEPT !.sig = sig, !.xpay = xpay,
                    !.hdr = createRequestContext(sig, xpay)], "processHTTPRequest")
       EXCEPT !.pc = "awaitProcess"]

\* createRequestContext, requiresPayment, and the call of processHTTPRequest
staticRoute(q, sig, xpay) ==
    LET q1 == [Call(q, "requiresPayment") EXCEPT !.sig = sig, !.xpay = xpay,
                                                  !.hdr = createRequestContext(sig, xpay)]
    IN  IF q.staticMatch
        THEN [Call(q1, "processHTTPRequest") EXCEPT !.pc = "awaitProcess"]
        ELSE Resolve(q1, "pass")

\* variant: the static routes are consulted before the dynamic ones
routeRequestStaticFirst(q, sig, xpay) ==
    LET d == findDynamicRoute(hook.routes, q.method, q.path)
    IN  IF httpServer /\ q.staticMatch THEN staticRoute(q, sig, xpay)
        ELSE IF d # 0 THEN handleDynamicRoute(q, d)
        ELSE Resolve(q, "pass")

\* dynamic routes first, then the static routes, then the plain handler
routeRequest(q, sig, xpay) ==
    LET d == findDynamicRoute(hook.routes, q.method, q.path)
    IN  IF d # 0 THEN handleDynamicRoute(q, d)
        ELSE IF httpServer THEN staticRoute(q, sig, xpay)
        ELSE Resolve(q, "pass")

\* variant: a failed initialization is not looked at
afterInitNoFailCheck(q, sig, xpay) == routeRequest(q, sig, xpay)

\* the hook after the wait for initPromise
afterInit(q, sig, xpay) ==
    IF initState = "failed" THEN Done(q, create503Response)
    ELSE routeRequest(q, sig, xpay)

\* variant: the request does not wait for initPromise
handleNoWait(q, sig, xpay) ==
    IF cfg.api = "paymentHookFromHTTPServer" THEN staticRoute(q, sig, xpay)
    ELSE IF ~cfg.enabled THEN Resolve(q, "pass")
    ELSE afterInit(q, sig, xpay)

\* the handle function up to its first await
handle(q, sig, xpay) ==
    IF cfg.api = "paymentHookFromHTTPServer" THEN staticRoute(q, sig, xpay)
    ELSE IF ~cfg.enabled THEN Resolve(q, "pass")
    ELSE IF initState = "pending" /\ initPromise
    THEN [q EXCEPT !.pc = "awaitInit"]
    ELSE afterInit(q, sig, xpay)

\* variant: an empty option list is not taken as "no payment"
noPaymentNeededNullOnly(o) == o = "null"

\* accepts() answered null or an empty list
noPaymentNeeded(o) == o = "null" \/ o = "empty"

\* variant: a proof without a matching requirement is verified all the same
extractAndMatchVerifiesUnmatched(q, sig, xpay, m) ==
    LET p  == extractPaymentPayload(sig, xpay)
        q1 == [Call(q, "extractPaymentPayload") EXCEPT !.sig = sig, !.xpay = xpay,
                                                       !.hdr = paymentHeader(sig, xpay)]
        q2 == [Call(q1, "findMatchingRequirements") EXCEPT !.payload = p, !.net = m]
    IN  IF p = "throw" THEN Done(q1, create402Response(INVALID_SIGNATURE_HEADER))
        ELSE IF p = "null" THEN Done(q1, create402Response(NoError))
        ELSE [Call(q2, "verifyPayment") EXCEPT !.pc = "awaitVerify"]

\* handleDynamicRoute from extractPaymentPayload to `await verifyPayment`;
\* m is what findMatchingRequirements answers, "none" for undefined
extractAndMatch(q, sig, xpay, m) ==
    LET p  == extractPaymentPayload(sig, xpay)
        q1 == [Call(q, "extractPaymentPayload") EXCEPT !.sig = sig, !.xpay = xpay,
                                                       !.hdr = paymentHeader(sig, xpay)]
        q2 == [Call(q1, "findMatchingRequirements") EXCEPT !.payload = p, !.net = m]
    IN  IF p = "throw" THEN Done(q1, create402Response(INVALID_SIGNATURE_HEADER))
        ELSE IF p = "null" THEN Done(q1, create402Response(NoError))
        ELSE IF m = "none" THEN Done(q2, create402Response(NO_MATCHING_REQUIREMENTS))
        ELSE [Call(q2, "verifyPayment") EXCEPT !.pc = "awaitVerify"]

\* variant: the verifier's payer is not taken over
paymentInfoUnknownPayer(v, network) ==
    [set |-> TRUE, payer |-> "unknown", network |-> network, transaction |-> UNDEF]

\* the paymentInfo of a valid verification: verifyResult.payer ?? 'unknown'
\* and the matched requirement's network
paymentInfoOf(v, network) ==
    [set |-> TRUE, payer |-> IF v.payer = UNDEF THEN "unknown" ELSE v.payer,
     network |-> network, transaction |-> UNDEF]

\* variant: isValid is not looked at
afterVerifyIgnoresValidity(q, v) ==
    IF v.threw THEN Throw([q EXCEPT !.verified = "threw"])
    ELSE Resolve([Call(q, "locals.x402") EXCEPT
                    !.verified = IF v.isValid THEN "valid" ELSE "invalid",
                    !.x402 =
                    [set |-> TRUE,
                     payer |-> IF v.payer = UNDEF THEN "unknown" ELSE v.payer,
                     network |-> q.net, transaction |-> UNDEF]],
                 "dynamic")

\* variant: the handler is called before the payment info is stored
afterVerifyAttachesLate(q, v) ==
    IF v.threw THEN Throw([q EXCEPT !.verified = "threw"])
    ELSE IF ~v.isValid
    THEN Done([q EXCEPT !.verified = "invalid", !.vreason = v.invalidReason],
              create402Response(IF v.invalidReason = UNDEF THEN VERIFICATION_FAILED
                                ELSE v.invalidReason))
    ELSE Call(Resolve([q EXCEPT !.verified = "valid", !.vpayer = v.payer,
                                !.x402 =
                                  [set |-> TRUE,
                                   payer |-> IF v.payer = UNDEF THEN "unknown" ELSE v.payer,
                                   network |-> q.net, transaction |-> UNDEF]],
                      "dynamic"),
              "locals.x402")

\* verifyAndBuildPaymentInfo after verifyPayment, then locals.x402 and resolve
afterVerify(q, v) ==
    IF v.threw THEN Throw([q EXCEPT !.verified = "threw"])
    ELSE IF ~v.isValid
    THEN Done([q EXCEPT !.verified = "invalid", !.vreason = v.invalidReason],
              create402Response(IF v.invalidReason = UNDEF THEN VERIFICATION_FAILED
                                ELSE v.invalidReason))
    ELSE Resolve([Call(q, "locals.x402") EXCEPT !.verified = "valid",
                    !.vpayer = v.payer, !.x402 = paymentInfoOf(v, q.net)],
                 "dynamic")

\* variant: settlement is requested before the handler runs
handleStaticRouteVerifiedSettlesFirst(q, network) ==
    Resolve(Call([Call(q, "locals.x402") EXCEPT !.net = network, !.x402 =
                    [set |-> TRUE, payer |-> "unknown", network |-> network,
                     transaction |-> UNDEF]],
                 "processSettlement"),
            "static")

\* handleStaticRouteVerified up to `await resolve(event)`
handleStaticRouteVerified(q, network) ==
    Resolve([Call(q, "locals.x402") EXCEPT !.net = network, !.x402 =
               [set |-> TRUE, payer |-> "unknown", network |-> network,
                transaction |-> UNDEF]],
            "static")

\* the bodyUsed warning and the settlement call
startSettlement(q, name) ==
    LET q1 == IF q.resp.bodyUsed THEN Log(q, LOG_BODY_CONSUMED, "") ELSE q
    IN  [Call(q1, name) EXCEPT !.pc = "awaitSettle"]

\* variant: a verified request is settled whatever became of the handler
afterResolveSettlesAnyway(q, h) ==
    LET q1 == IF h.threw THEN q
              ELSE [q EXCEPT !.resp = [set |-> TRUE, status |-> h.status,
                                       bodyUsed |-> h.bodyUsed]]
    IN  IF q.mode = "dynamic" /\ (h.threw \/ (h.status >= 200 /\ h.status < 300))
        THEN [Call(q1, "settlePayment") EXCEPT !.pc = "awaitSettle"]
        ELSE IF q.mode = "static" /\ (h.threw \/ (h.status >= 200 /\ h.status < 300))
        THEN [Call(q1, "processSettlement") EXCEPT !.pc = "awaitSettle"]
        ELSE IF h.threw THEN Throw(q)
        ELSE Done(q1, Unmodified(q1.resp))

\* the code after `await resolve(event)`
afterResolve(q, h) ==
    IF h.threw THEN Throw(q)
    ELSE LET q1 == [q EXCEPT !.resp = [set |-> TRUE, status |-> h.status,
                                       bodyUsed |-> h.bodyUsed]]
         IN  IF q.mode = "dynamic" /\ shouldSettle(h.status)
             THEN startSettlement(q1, "settlePayment")
             ELSE IF q.mode = "static" /\ shouldSettle(h.status)
             THEN startSettlement(q1, "processSettlement")
             ELSE Done(q1, Unmodified(q1.resp))

\* response.clone() throws a TypeError when the body has been consumed; the
\* throw is inside the try block, so it is logged as a settlement error
cloneWithHeaders(q, added) ==
    IF q.resp.bodyUsed
    THEN Done(Log(q, LOG_SETTLEMENT_ERROR, "TypeError"), Unmodified(q.resp))
    ELSE Done(q, Settled(q.resp, added))

\* variant: a settlement without a payer resets the payer to the sentinel
writeSettlementDefaultsPayer(info, s) ==
    [info EXCEPT !.transaction = s.transaction,
                 !.payer = IF s.payer = UNDEF THEN "unknown" ELSE s.payer]

\* paymentInfo.transaction = settleResult.transaction, and the payer when the
\* settlement names one (payers are non-empty strings or undefined)
writeSettlement(info, s) ==
    [info EXCEPT !.transaction = s.transaction,
                 !.payer = IF s.payer = UNDEF THEN @ ELSE s.payer]

\* variant: no try/catch around the settlement call
afterSettleRethrows(q, s) ==
    IF s.threw THEN Throw([q EXCEPT !.settled = "threw", !.reason = "message"])
    ELSE IF ~s.success
    THEN Done(Log([q EXCEPT !.settled = "failed", !.reason = s.errorReason],
                  LOG_SETTLEMENT_FAILED, s.errorReason),
              Unmodified(q.resp))
    ELSE LET q1 == [q EXCEPT !.settled = "success", !.spayer = s.payer,
                             !.x402 = writeSettlement(@, s)]
         IN  IF q.mode = "dynamic"
             THEN cloneWithHeaders(q1, {"Payment-Response"})
             ELSE cloneWithHeaders(q1, {"settleResult.headers"})

\* the code after `await settlePayment` / `await processSettlement`
afterSettle(q, s) ==
    IF s.threw
    THEN Done(Log([q EXCEPT !.settled = "threw", !.reason = "message"],
                  LOG_SETTLEMENT_ERROR, "message"),
              Unmodified(q.resp))
    ELSE IF ~s.success
    THEN Done(Log([q EXCEPT !.settled = "failed", !.reason = s.errorReason],
                  LOG_SETTLEMENT_FAILED, s.errorReason),
              Unmodified(q.resp))
    ELSE LET q1 == [q EXCEPT !.settled = "success", !.spayer = s.payer,
                             !.x402 = writeSettlement(@, s)]
         IN  IF q.mode = "dynamic"
             THEN cloneWithHeaders(q1, {"Payment-Response"})
             ELSE cloneWithHeaders(q1, {"settleResult.headers"})

\* the code after `await processHTTPRequest`
afterProcess(q, res) ==
    LET q1 == [q EXCEPT !.ptype = res.type,
                        !.pbody = IF res.type = "payment-error" THEN res.body ELSE ""]
    IN  IF res.type = "throw" THEN Throw(q1)
        ELSE IF res.type = "payment-error" THEN Done(q1, paymentErrorToResponse(res))
        ELSE IF res.type = "payment-verified"
        THEN handleStaticRouteVerified([q1 EXCEPT !.vpayer = res.payer], res.network)
        ELSE Resolve(q1, "pass")

(* ------------------------------- actions ------------------------------- *)

\* httpServer.initialize() / resourceServer.initialize() fulfils
InitResolve ==
    /\ initState = "pending"
    /\ initState' = "success"
    /\ UNCHANGED <<call, cfg, env, hook, initCalls, initLog, req>>

\* variant: a rejection is taken after the state has been set
InitRejectLate ==
    /\ initState \in {"pending", "success"}
    /\ initState' = "failed"
    /\ initLog' = Append(initLog, <<LOG_INIT_FAILED, "message">>)
    /\ UNCHANGED <<call, cfg, env, hook, initCalls, req>>

\* ... or rejects
InitReject ==
    /\ initState = "pending"
    /\ initState' = "failed"
    /\ initLog' = Append(initLog, <<LOG_INIT_FAILED, "message">>)
    /\ UNCHANGED <<call, cfg, env, hook, initCalls, req>>

\* a request reaches the hook; requests are numbered in order of arrival
Arrive(r) ==
    /\ hook.returned
    /\ req[r].pc = "idle"
    /\ IF r = 1 THEN TRUE ELSE req[r - 1].pc # "idle"
    /\ \E t \in env.targets, sm \in (IF httpServer THEN BOOLEAN ELSE {FALSE}),
          sig \in env.sig, xpay \in env.xpay :
          req' = [req EXCEPT ![r] =
                    handle([req[r] EXCEPT !.method = t.method, !.path = t.path,
                                          !.staticMatch = sm], sig, xpay)]
    /\ UNCHANGED <<call, cfg, env, hook, initState, initCalls, initLog>>

\* variant: a suspended request goes on only after a successful initialization
ResumeAfterInitSuccessOnly(r) ==
    /\ req[r].pc = "awaitInit"
    /\ initState = "success"
    /\ \E sig \in env.sig, xpay \in env.xpay :
          req' = [req EXCEPT ![r] = afterInit(req[r], sig, xpay)]
    /\ UNCHANGED <<call, cfg, env, hook, initState, initCalls, initLog>>

\* initPromise has settled and the suspended request goes on
ResumeAfterInit(r) ==
    /\ req[r].pc = "awaitInit"
    /\ initState # "pending"
    /\ \E sig \in env.sig, xpay \in env.xpay :
          req' = [req EXCEPT ![r] = afterInit(req[r], sig, xpay)]
    /\ UNCHANGED <<call, cfg, env, hook, initState, initCalls, initLog>>

AcceptsReturn(r) ==
    /\ req[r].pc = "awaitAccepts"
    /\ \E o \in env.accepts :
          req' = [req EXCEPT ![r] =
                    IF o = "throw" THEN Throw(req[r])
                    ELSE IF noPaymentNeeded(o)
                    THEN Resolve([req[r] EXCEPT !.opts = o], "free")
                    ELSE [Call(req[r], "buildPaymentRequirementsFromOptions")
                            EXCEPT !.opts = o, !.pc = "awaitBuild"]]
    /\ UNCHANGED <<call, cfg, env, hook, initState, initCalls, initLog>>

BuildReturn(r) ==
    /\ req[r].pc = "awaitBuild"
    /\ \E ok \in env.build, sig \in env.sig, xpay \in env.xpay, m \in env.match :
          req' = [req EXCEPT ![r] =
                    IF ~ok THEN Throw(req[r])
                    ELSE extractAndMatch(req[r], sig, xpay, m)]
    /\ UNCHANGED <<call, cfg, env, hook, initState, initCalls, initLog>>

VerifyReturn(r) ==
    /\ req[r].pc = "awaitVerify"
    /\ \E v \in env.verify : req' = [req EXCEPT ![r] = afterVerify(req[r], v)]
    /\ UNCHANGED <<call, cfg, env, hook, initState, initCalls, initLog>>

ProcessReturn(r) ==
    /\ req[r].pc = "awaitProcess"
    /\ \E res \in env.process : req' = [req EXCEPT ![r] = afterProcess(req[r], res)]
    /\ UNCHANGED <<call, cfg, env, hook, initState, initCalls, initLog>>

ResolveReturn(r) ==
    /\ req[r].pc = "awaitResolve"
    /\ \E h \in env.handler : req' = [req EXCEPT ![r] = afterResolve(req[r], h)]
    /\ UNCHANGED <<call, cfg, env, hook, initState, initCalls, initLog>>

\* variant: one PaymentInfo object is shared by the requests of the hook
SettleReturnSharedInfo(r) ==
    /\ req[r].pc = "awaitSettle"
    /\ \E s \in env.settle :
          req' = [o \in DOMAIN req |->
                    IF o = r THEN afterSettle(req[r], s)
                    ELSE IF req[o].x402.set /\ ~s.threw /\ s.success
                    THEN [req[o] EXCEPT !.x402 = writeSettlement(@, s)]
                    ELSE req[o]]
    /\ UNCHANGED <<call, cfg, env, hook, initState, initCalls, initLog>>

SettleReturn(r) ==
    /\ req[r].pc = "awaitSettle"
    /\ \E s \in env.settle : req' = [req EXCEPT ![r] = afterSettle(req[r], s)]
    /\ UNCHANGED <<call, cfg, env, hook, initState, initCalls, initLog>>

Next ==
    \/ InitResolve
    \/ InitReject
    \/ \E r \in DOMAIN req : Arrive(r)
    \/ \E r \in DOMAIN req : ResumeAfterInit(r)
    \/ \E r \in DOMAIN req : AcceptsReturn(r)
    \/ \E r \in DOMAIN req : BuildReturn(r)
    \/ \E r \in DOMAIN req : VerifyReturn(r)
    \/ \E r \in DOMAIN req : ProcessReturn(r)
    \/ \E r \in DOMAIN req : ResolveReturn(r)
    \/ \E r \in DOMAIN req : SettleReturn(r)

Spec == Init /\ [][Next]_vars

SpecFull == InitFull /\ [][Next]_vars

\* the hook instances whose requests are followed to their end
InitLive ==
    /\ cfg \in { c \in Configs : c.api # "paymentHookFromConfig" /\ c.routes # RoutesOrdered }
    /\ env = [LeanEnv EXCEPT !.n = LiveReq]
    /\ Constructed

\* A promise that is awaited is settled at some time, and the code behind an
\* await runs once its promise has settled: initialize() fulfils or rejects,
\* and every call made for a request returns.  Nothing obliges a client to
\* send a request.
Fairness ==
    /\ WF_vars(InitResolve \/ InitReject)
    /\ \A r \in 1..LiveReq :
          WF_vars(\/ ResumeAfterInit(r)
                  \/ AcceptsReturn(r)
                  \/ BuildReturn(r)
                  \/ VerifyReturn(r)
                  \/ ProcessReturn(r)
                  \/ ResolveReturn(r)
                  \/ SettleReturn(r))

SpecLive == InitLive /\ [][Next]_vars /\ Fairness

(* ---------------------------- query parameters ------------------------- *)

\* the property names every object literal inherits from Object.prototype
ObjectPrototype == {"constructor"}

Undefined == [kind |-> "undefined", items |-> <<>>]

String(v) == [kind |-> "string", items |-> <<v>>]

Array(items) == [kind |-> "array", items |-> items]

\* an inherited member: a function, neither undefined nor an array
Inherited(key) == [kind |-> "function", items |-> <<key>>]

\* params[key] of a plain object: the own property, else the inherited one
getProperty(params, key) ==
    IF key \in DOMAIN params THEN params[key]
    ELSE IF key \in ObjectPrototype THEN Inherited(key)
    ELSE Undefined

\* params[key] = v
setProperty(params, key, v) ==
    [k \in DOMAIN params \cup {key} |-> IF k = key THEN v ELSE params[k]]

\* the loop body of getQueryParams for one [key, value] entry
addParam(params, key, value) ==
    LET existing == getProperty(params, key)
    IN  IF existing = Undefined THEN setProperty(params, key, String(value))
        ELSE IF existing.kind = "array"
             THEN setProperty(params, key, Array(Append(existing.items, value)))
        ELSE IF existing.kind = "string"
             THEN setProperty(params, key, Array(<<existing.items[1], value>>))
        ELSE setProperty(params, key, Array(<<existing, value>>))

RECURSIVE getQueryParams(_)
getQueryParams(entries) ==
    IF entries = <<>> THEN [k \in {} |-> Undefined]
    ELSE LET last == entries[Len(entries)]
         IN  addParam(getQueryParams(SubSeq(entries, 1, Len(entries) - 1)),
                      last.key, last.value)

\* searchParams.getAll(name)
getAll(entries, name) ==
    LET hits == SelectSeq(entries, LAMBDA e : e.key = name)
    IN  [i \in 1..Len(hits) |-> hits[i].value]

getQueryParam(entries, name) ==
    LET values == getAll(entries, name)
    IN  IF Len(values) = 0 THEN Undefined
        ELSE IF Len(values) = 1 THEN String(values[1])
        ELSE Array(values)

QueryKeys == {"a", "b", "constructor"}

QueryValues == {"1", "2"}

\* the names asked for with getQueryParam
QueryNames == QueryKeys \cup {"c"}

\* url.searchParams.entries() of the query strings with at most MaxPairs pairs
QueryInputs ==
    UNION { [1..n -> [key : QueryKeys, value : QueryValues]] : n \in 0..MaxPairs }

\* the characters of route patterns and request paths: a separator, a letter,
\* the wildcard marker and the parameter marker of other routers
PathInputs == StringsUpTo({"/", "a", "*", ":"}, MaxPathLen)

(* ------------------------ the event for accepts() ---------------------- *)

\* the properties of a RequestEvent that a policy function reads
EventProps == {"request", "getClientAddress", "cookies", "locals", "url"}

\* the event the hook is called with: every property names its own value, the
\* request is an object with a body
OriginalEvent ==
    [p \in EventProps |-> IF p = "request" THEN "original request" ELSE "event." \o p]

\* variant: the proxy hands out the request of the event itself
proxyGetOriginalRequest(target, prop) == target[prop]

\* the get trap of eventForAccepts; "cloned request" is event.request.clone(),
\* a second request object with a body of its own
proxyGet(target, prop) ==
    IF prop = "request" THEN "cloned request" ELSE target[prop]

\* handleDynamicRoute up to resolve(event) as the policy function sees it:
\* a.bodyUsed is the state of the request's body when the hook is called,
\* a.reads the properties the policy function reads from its event,
\* a.readsBody whether it reads the body of the request it was given.
\* clone() throws on a request whose body has been consumed.
acceptsWithProxy(a) ==
    IF a.bodyUsed
    THEN [threw |-> TRUE, seen |-> <<>>, consumed |-> {"original request"},
          handlerGets |-> "none"]
    ELSE LET seen == [p \in a.reads |-> proxyGet(OriginalEvent, p)]
         IN  [threw |-> FALSE,
              seen |-> seen,
              consumed |-> IF a.readsBody /\ "request" \in a.reads
                           THEN {seen["request"]} ELSE {},
              handlerGets |-> "event"]

(* --------------------- the helpers, one call at a time ----------------- *)

\* a call of one of the helper functions with its argument, not yet evaluated
Pending(fn, arg) == [fn |-> fn, done |-> FALSE, arg |-> arg, result |-> <<>>]

\* the call returns (or throws): result is what the caller gets
Return(result) == [call EXCEPT !.done = TRUE, !.result = result]

\* no hook is involved in a call of a helper
NoHook ==
    /\ cfg = [api |-> "paymentHook", enabled |-> FALSE, routes |-> <<>>,
              schemes |-> NoSchemes]
    /\ env = [LeanEnv EXCEPT !.n = 0]
    /\ hook = MadeHook(cfg)
    /\ initState = Construct(cfg).initState
    /\ initCalls = [http |-> 0, rs |-> 0]
    /\ initLog = <<>>
    /\ req = <<>>

InitPure ==
    /\ NoHook
    /\ \/ \E s \in NetworkInputs : call = Pending("validateNetwork", s)
       \/ \E k \in RouteKeyInputs : call = Pending("parseRouteKey", k)
       \/ \E c \in ChainsInputs, p \in {Cent} :
             call = Pending("buildPaymentOptions", [chains |-> c, priceUsd |-> p])
       \/ \E c \in {OneEvm, OneBadEvm}, p \in PriceInputs :
             call = Pending("buildPaymentOptions", [chains |-> c, priceUsd |-> p])
       \/ \E c \in ChainsInputs : call = Pending("getEnabledChainNames", c)
       \/ \E q \in QueryInputs : call = Pending("getQueryParams", q)
       \/ \E a \in [bodyUsed : BOOLEAN, reads : SUBSET EventProps, readsBody : BOOLEAN] :
             call = Pending("accepts", a)
       \/ \E pattern \in PathInputs, pathname \in PathInputs :
             call = Pending("pathMatches", [pattern |-> pattern, pathname |-> pathname])

ValidateNetwork ==
    /\ call.fn = "validateNetwork" /\ ~call.done
    /\ call' = Return(validateNetwork(call.arg))
    /\ UNCHANGED <<cfg, env, hook, initState, initCalls, initLog, req>>

ParseRouteKey ==
    /\ call.fn = "parseRouteKey" /\ ~call.done
    /\ call' = Return(parseRouteKey(call.arg))
    /\ UNCHANGED <<cfg, env, hook, initState, initCalls, initLog, req>>

BuildPaymentOptions ==
    /\ call.fn = "buildPaymentOptions" /\ ~call.done
    /\ call' = Return(buildPaymentOptions(call.arg.chains, call.arg.priceUsd))
    /\ UNCHANGED <<cfg, env, hook, initState, initCalls, initLog, req>>

GetEnabledChainNames ==
    /\ call.fn = "getEnabledChainNames" /\ ~call.done
    /\ call' = Return(getEnabledChainNames(call.arg))
    /\ UNCHANGED <<cfg, env, hook, initState, initCalls, initLog, req>>

\* getQueryParams() and getQueryParam(name) for every name on one adapter; url
\* is what searchParams.entries() gives after the calls
GetQueryParams ==
    /\ call.fn = "getQueryParams" /\ ~call.done
    /\ call' = Return([params |-> getQueryParams(call.arg),
                       param  |-> [n \in QueryNames |-> getQueryParam(call.arg, n)],
                       url    |-> call.arg])
    /\ UNCHANGED <<cfg, env, hook, initState, initCalls, initLog, req>>

PathMatches ==
    /\ call.fn = "pathMatches" /\ ~call.done
    /\ call' = Return(pathMatches(call.arg.pattern, call.arg.pathname))
    /\ UNCHANGED <<cfg, env, hook, initState, initCalls, initLog, req>>

AcceptsWithProxy ==
    /\ call.fn = "accepts" /\ ~call.done
    /\ call' = Return(acceptsWithProxy(call.arg))
    /\ UNCHANGED <<cfg, env, hook, initState, initCalls, initLog, req>>

NextPure ==
    \/ ValidateNetwork
    \/ ParseRouteKey
    \/ BuildPaymentOptions
    \/ GetEnabledChainNames
    \/ GetQueryParams
    \/ PathMatches
    \/ AcceptsWithProxy

SpecPure == InitPure /\ [][NextPure]_vars

TypeOK ==
    /\ call.fn \in {"none", "validateNetwork", "parseRouteKey", "buildPaymentOptions",
                   "getEnabledChainNames", "getQueryParams", "pathMatches", "accepts"}
    /\ hook.returned \in BOOLEAN
    /\ initState \in {"none", "pending", "success", "failed"}
    /\ \A r \in DOMAIN req : req[r].pc \in
         {"idle", "awaitInit", "awaitAccepts", "awaitBuild", "awaitVerify",
          "awaitProcess", "awaitResolve", "awaitSettle", "done", "threw"}

(* ------------------------------ properties ----------------------------- *)

Has(seq, x) == \E i \in DOMAIN seq : seq[i] = x

Count(seq, S) == Cardinality({ i \in DOMAIN seq : seq[i] \in S })

\* some x comes before every y of the sequence
Before(seq, x, y) ==
    \A j \in DOMAIN seq : seq[j] = y => \E i \in 1..(j - 1) : seq[i] = x

SettleCalls == {"settlePayment", "processSettlement"}

Is2xx(status) == 200 <= status /\ status < 300

\* the hook returned the very response of the handler
ReturnedUnmodified(q) ==
    /\ q.pc = "done"
    /\ q.out.kind = "handler"
    /\ q.out.status = q.resp.status
    /\ q.out.hdrs = {}

\* an enabled paymentHook instance
IsPaymentHook == cfg.api = "paymentHook" /\ cfg.enabled

\* neither a dynamic nor a static route matches the request
NoRouteMatches(q) ==
    /\ findDynamicRoute(hook.routes, q.method, q.path) = 0
    /\ ~q.staticMatch

\* C1: on a dynamic route whose accepts() gave a non-empty option list, the
\* downstream handler is invoked only after verifyPayment answered isValid
\* for the decoded proof and a matched requirement, and a request answered
\* with a 402 never had the handler invoked.
C1_HandlerOnlyAfterValidProof ==
    \A r \in DOMAIN req :
        LET q == req[r]
        IN  (q.dyn # 0 /\ q.opts = "options") =>
              /\ Has(q.trace, "resolve") =>
                    /\ q.verified = "valid"
                    /\ q.payload \in Decodable
                    /\ q.net \in Networks
                    /\ Before(q.trace, "verifyPayment", "resolve")
              /\ q.out.kind = "402" => ~Has(q.trace, "resolve")

C1_Witness ==
    \E r \in DOMAIN req :
        /\ req[r].dyn # 0
        /\ req[r].opts = "options"
        /\ req[r].pc = "awaitResolve"

\* C2: settlement (settlePayment or processSettlement) is called only when the
\* handler's status s has 200 <= s < 300; after a verified payment every
\* other status ends the request with the handler's response unmodified.
C2_SettleOnly2xx ==
    \A r \in DOMAIN req :
        LET q == req[r]
        IN  /\ Count(q.trace, SettleCalls) > 0 =>
                 (q.resp.set /\ Is2xx(q.resp.status))
            /\ (q.mode \in {"dynamic", "static"} /\ q.resp.set /\ ~Is2xx(q.resp.status)) =>
                 (ReturnedUnmodified(q) /\ Count(q.trace, SettleCalls) = 0)

C2_Witness ==
    \E r \in DOMAIN req :
        /\ req[r].mode \in {"dynamic", "static"}
        /\ req[r].resp.set
        /\ req[r].resp.status = 300
        /\ req[r].pc = "done"

\* C3: for each request settlement is attempted at most once, and only after
\* the downstream handler's response for that request has been received.
C3_SettleOnceAfterResponse ==
    \A r \in DOMAIN req :
        LET q == req[r]
        IN  /\ Count(q.trace, SettleCalls) <= 1
            /\ Count(q.trace, SettleCalls) = 1 =>
                 /\ q.resp.set
                 /\ \A c \in SettleCalls : Before(q.trace, "resolve", c)
                 /\ q.trace[Len(q.trace)] \in SettleCalls

C3_Witness == \E r \in DOMAIN req : req[r].pc = "awaitSettle"

\* C4: when the settlement of a 2xx response answers success = false or
\* throws, the hook returns the handler's response (same status, no header
\* added), the last log entry is the settlement failure with its reason or
\* the settlement error with the exception message, and nothing is thrown.
C4_SettlementFailureIsAbsorbed ==
    \A r \in DOMAIN req :
        LET q == req[r]
        IN  q.settled \in {"failed", "threw"} =>
              /\ Is2xx(q.resp.status)
              /\ ReturnedUnmodified(q)
              /\ Len(q.log) > 0
              /\ q.log[Len(q.log)] =
                    IF q.settled = "failed"
                    THEN <<LOG_SETTLEMENT_FAILED, q.reason>>
                    ELSE <<LOG_SETTLEMENT_ERROR, q.reason>>

C4_Witness ==
    \E r \in DOMAIN req : req[r].settled = "threw" /\ req[r].pc = "done"

\* C5: once initialization has failed, every request that has got past the
\* wait is answered 503 with the service-unavailable error, without any
\* call to a collaborator or to the handler; initialize was started once
\* and the failure is logged once.
C5_FailedInitAnswers503 ==
    initState = "failed" =>
       /\ initCalls.http + initCalls.rs = 1
       /\ Len(initLog) = 1
       /\ initLog[1][1] = LOG_INIT_FAILED
       /\ \A r \in DOMAIN req :
             \/ req[r].pc \in {"idle", "awaitInit"}
             \/ /\ req[r].pc = "done"
                /\ req[r].out.status = 503
                /\ req[r].out.error = SERVICE_UNAVAILABLE
                /\ req[r].trace = <<>>

C5_Witness ==
    /\ initState = "failed"
    /\ \A r \in DOMAIN req : req[r].pc = "done"

\* C6: a paymentHook with at least one route starts initialize exactly once,
\* and while the state is pending every request that has arrived is
\* suspended on initPromise: none has reached route lookup, a collaborator
\* or the handler.
C6_InitOnceAndGate ==
    (IsPaymentHook /\ Len(cfg.routes) > 0) =>
       /\ initCalls.http + initCalls.rs = 1
       /\ initState = "pending" =>
             \A r \in DOMAIN req :
                /\ req[r].pc \in {"idle", "awaitInit"}
                /\ req[r].trace = <<>>
                /\ req[r].dyn = 0

C6_Witness ==
    /\ initState = "pending"
    /\ \A r \in DOMAIN req : req[r].pc = "awaitInit"

\* C7: the initialization state of a paymentHook is one of pending, success,
\* failed, and every change of it goes from pending to success or from
\* pending to failed, so it changes at most once.
C7_InitStateTransitions ==
    /\ [](IsPaymentHook => initState \in {"pending", "success", "failed"})
    /\ [][initState' # initState =>
            (initState = "pending" /\ initState' \in {"success", "failed"})]_vars

C7_Witness ==
    /\ initState = "failed"
    /\ \E r \in DOMAIN req : req[r].pc = "done"

\* C8 as stated: a request that matches no route key bypasses the
\* initialization gate: it never waits for initPromise, is never answered
\* 503, and gets exactly the handler's response.
C8_Original ==
    \A r \in DOMAIN req :
        LET q == req[r]
        IN  (IsPaymentHook /\ q.pc # "idle" /\ NoRouteMatches(q)) =>
              /\ q.pc # "awaitInit"
              /\ q.out.kind # "503"
              /\ q.pc \in {"awaitResolve", "done", "threw"}
              /\ q.pc = "done" => ReturnedUnmodified(q)

\* C8 amended: a request that matches no route key goes through the
\* initialization gate like any other (it waits while the state is pending
\* and is answered 503 when it is failed); past the gate it bypasses the
\* payment lifecycle: the only calls are the static lookup and the handler,
\* locals.x402 stays unset and the handler's response is returned unmodified.
C8_UnmatchedPassesThroughAfterGate ==
    \A r \in DOMAIN req :
        LET q == req[r]
        IN  (IsPaymentHook /\ q.pc # "idle" /\ NoRouteMatches(q)) =>
              \/ q.pc = "awaitInit" /\ q.trace = <<>>
              \/ /\ initState = "failed"
                 /\ q.pc = "done" /\ q.out.status = 503 /\ q.trace = <<>>
              \/ /\ initState = "success"
                 /\ q.trace = IF httpServer THEN <<"requiresPayment", "resolve">>
                              ELSE <<"resolve">>
                 /\ ~q.x402.set
                 /\ q.pc \in {"awaitResolve", "done", "threw"}
                 /\ q.pc = "done" => ReturnedUnmodified(q)
                 /\ q.pc = "threw" => ~q.resp.set

C8_Witness ==
    \E r \in DOMAIN req :
        /\ IsPaymentHook
        /\ Len(cfg.routes) > 0
        /\ NoRouteMatches(req[r])
        /\ req[r].pc = "done"
        /\ req[r].out.kind = "handler"

\* C9: when accepts() answers null or an empty list, the only calls made for
\* the request are accepts and the handler, locals.x402 stays unset, no 402
\* is produced and the handler's response is returned unmodified.
C9_NoOptionsMeansFree ==
    \A r \in DOMAIN req :
        LET q == req[r]
        IN  q.opts \in {"null", "empty"} =>
              /\ q.trace = <<"accepts", "resolve">>
              /\ ~q.x402.set
              /\ q.pc \in {"awaitResolve", "done", "threw"}
              /\ q.pc = "done" => ReturnedUnmodified(q)
              /\ q.pc = "threw" => ~q.resp.set

C9_Witness ==
    \E r \in DOMAIN req :
        /\ req[r].opts = "empty"
        /\ req[r].pc = "done"
        /\ req[r].out.kind = "handler"

\* C10: when a dynamic route and a static route both match a request, the
\* static subsystem (requiresPayment, processHTTPRequest, processSettlement)
\* is never called for it, also when the dynamic policy asks for no payment.
C10_DynamicBeforeStatic ==
    \A r \in DOMAIN req :
        LET q == req[r]
        IN  (IsPaymentHook /\ q.staticMatch
               /\ findDynamicRoute(hook.routes, q.method, q.path) # 0) =>
              /\ Count(q.trace, {"requiresPayment", "processHTTPRequest",
                                 "processSettlement"}) = 0
              /\ q.pc \notin {"idle", "awaitInit"} /\ q.out.kind # "503" => q.dyn # 0
              /\ q.mode \notin {"static", "pass"}

C10_Witness ==
    \E r \in DOMAIN req :
        /\ IsPaymentHook
        /\ req[r].staticMatch
        /\ req[r].dyn # 0
        /\ req[r].opts = "null"
        /\ req[r].pc = "done"

\* the request got as far as reading its proof header on a dynamic route
Extracted(q) == Has(q.trace, "extractPaymentPayload")

\* a proof header is there (either name) but does not decode
Undecodable(q) ==
    LET h == IF q.sig # ABSENT THEN q.sig ELSE q.xpay
    IN  h # ABSENT /\ h \notin Decodable

\* C11: on a payment-requiring dynamic route a request without a proof header
\* is answered with a 402 challenge built without an error, a request whose
\* proof header is present, whatever its value, but does not decode with a
\* 402 challenge built with 'Invalid payment signature header', and the two
\* challenges differ.
C11_UndecodableHeaderIsNotAbsence ==
    /\ create402Response(NoError) # create402Response(INVALID_SIGNATURE_HEADER)
    /\ \A r \in DOMAIN req :
         LET q == req[r]
         IN  Extracted(q) =>
               /\ (q.sig = ABSENT /\ q.xpay = ABSENT)
                     => q.pc = "done" /\ q.out = create402Response(NoError)
               /\ Undecodable(q)
                     => q.pc = "done" /\ q.out = create402Response(INVALID_SIGNATURE_HEADER)

\* C12: createRequestContext and extractPaymentPayload both take the
\* Payment-Signature value whenever that header is present, so that X-Payment
\* has no influence then, and the X-Payment value only when Payment-Signature
\* is absent; the payload decoded on a dynamic route is never taken from
\* X-Payment while Payment-Signature is present.
C12_PaymentSignatureWins ==
    \A r \in DOMAIN req :
       LET q == req[r]
       IN  q.hdr # "unread" =>
             /\ q.sig # ABSENT => q.hdr = q.sig
             /\ q.sig = ABSENT => q.hdr = q.xpay
             /\ Extracted(q) =>
                  q.payload = (IF q.sig # ABSENT
                               THEN (IF q.sig \in Decodable THEN q.sig ELSE "")
                               ELSE (IF q.xpay \in Decodable THEN q.xpay ELSE ""))

\* both headers were sent and the proof was decoded from Payment-Signature
C12_Witness ==
    \E r \in DOMAIN req :
       /\ req[r].sig = "tokA"
       /\ req[r].xpay = "tokB"
       /\ req[r].payload = req[r].sig
       /\ req[r].pc = "awaitVerify"

\* C13: when findMatchingRequirements finds no requirement for the proof, the
\* request is answered with a 402 challenge built with 'No matching payment
\* requirements' and verifyPayment is not called for it.
C13_NoMatchIs402WithoutVerify ==
    \A r \in DOMAIN req :
       LET q == req[r]
       IN  (Has(q.trace, "findMatchingRequirements") /\ q.net = "none") =>
             /\ q.pc = "done"
             /\ q.out = create402Response(NO_MATCHING_REQUIREMENTS)
             /\ ~Has(q.trace, "verifyPayment")
             /\ ~Has(q.trace, "resolve")

\* a decoded proof found no requirement and was answered
C13_Witness ==
    \E r \in DOMAIN req :
       /\ req[r].payload \in Decodable
       /\ req[r].net = "none"
       /\ req[r].out.status = 402
       /\ req[r].out.error = NO_MATCHING_REQUIREMENTS

\* which of the four challenge conditions a request answered 402 is in
Condition(q) ==
    IF q.sig = ABSENT /\ q.xpay = ABSENT THEN "no proof"
    ELSE IF Undecodable(q) THEN "undecodable proof"
    ELSE IF q.net = "none" THEN "no matching requirement"
    ELSE "verification rejected"

\* the condition an error string stands for
ConditionOfError(e) ==
    IF e = NoError THEN "no proof"
    ELSE IF e = INVALID_SIGNATURE_HEADER THEN "undecodable proof"
    ELSE IF e = NO_MATCHING_REQUIREMENTS THEN "no matching requirement"
    ELSE "verification rejected"

\* C14: a proof the verifier reports invalid is answered with a 402 challenge
\* whose error is the verifier's reason, or 'Payment verification failed'
\* when it gives none, and over the four challenge conditions (no proof,
\* undecodable proof, no matching requirement, verification rejected) the
\* error string of a challenge tells which condition it answers.
C14_ChallengeErrorTellsCondition ==
    \A r \in DOMAIN req :
       LET q == req[r]
       IN  /\ q.verified = "invalid" =>
                /\ q.pc = "done"
                /\ q.out = create402Response(IF q.vreason = UNDEF
                                             THEN VERIFICATION_FAILED ELSE q.vreason)
           /\ (Extracted(q) /\ q.out.kind = "402") =>
                ConditionOfError(q.out.error) = Condition(q)

\* C15: on a dynamic route, after a valid verification, locals.x402 is set
\* before resolve is called, and while the handler runs it is {payer, network}
\* with the verifier's payer ('unknown' if it named none) and the matched
\* requirement's network; locals.x402 is not set on any 402 answer.
C15_PaymentInfoSetBeforeHandler ==
    \A r \in DOMAIN req :
       LET q == req[r]
       IN  /\ q.mode = "dynamic" =>
                /\ q.verified = "valid"
                /\ q.net \in Networks
                /\ Has(q.trace, "locals.x402")
                /\ Before(q.trace, "locals.x402", "resolve")
                /\ q.pc = "awaitResolve" =>
                     q.x402 = [set |-> TRUE,
                               payer |-> IF q.vpayer = UNDEF THEN "unknown" ELSE q.vpayer,
                               network |-> q.net, transaction |-> UNDEF]
           /\ q.out.kind \in {"402", "paymentError"}
                => ~q.x402.set /\ ~Has(q.trace, "locals.x402")

\* the handler of a dynamic route runs and sees the verifier's payer
C15_Witness ==
    \E r \in DOMAIN req :
       /\ req[r].mode = "dynamic"
       /\ req[r].pc = "awaitResolve"
       /\ req[r].vpayer = "0xPayer"
       /\ req[r].x402.payer = "0xPayer"

\* C16: while the handler of a verified static-route request runs, locals.x402
\* holds the payer verification resolved, and 'unknown' only when
\* verification resolved none.
C16_StaticHandlerSeesVerifiedPayer ==
    \A r \in DOMAIN req :
       LET q == req[r]
       IN  (q.mode = "static" /\ q.pc = "awaitResolve") =>
             /\ q.x402.set
             /\ q.x402.payer = (IF q.vpayer = UNDEF THEN "unknown" ELSE q.vpayer)

\* C17: when the settlement of a 2xx response succeeds, PaymentInfo has the
\* settlement's transaction, and its payer when it names one, and the hook
\* returns the handler's status and body with the settlement header(s)
\* merged in: Payment-Response on a dynamic route, the settlement result's
\* headers on a static one.
C17_SettledResponseCarriesHeaders ==
    \A r \in DOMAIN req :
       LET q == req[r]
       IN  q.settled = "success" =>
             /\ q.pc = "done"
             /\ q.x402.transaction = "0xtx"
             /\ q.spayer # UNDEF => q.x402.payer = q.spayer
             /\ q.out = Settled(q.resp, IF q.mode = "dynamic" THEN {"Payment-Response"}
                                        ELSE {"settleResult.headers"})

\* a transaction id has been written
Populated(t) == t \notin {"", UNDEF}

\* C18: PaymentInfo.transaction is populated only if the request's settlement
\* returned success; once populated it does not change, and a payer that is a
\* reported value never becomes 'unknown' again.
C18_PaymentInfoOnlyUpgrades ==
    /\ [](\A r \in DOMAIN req :
            Populated(req[r].x402.transaction) => req[r].settled = "success")
    /\ [][\A r \in DOMAIN req :
            /\ Populated(req[r].x402.transaction)
                 => req'[r].x402.transaction = req[r].x402.transaction
            /\ (req[r].x402.set /\ req[r].x402.payer # "unknown")
                 => (req'[r].x402.set /\ req'[r].x402.payer # "unknown")]_vars

\* a settlement without a payer has left the verifier's payer in place
C18_Witness ==
    \E r \in DOMAIN req :
       /\ req[r].settled = "success"
       /\ req[r].spayer = UNDEF
       /\ req[r].x402.transaction = "0xtx"
       /\ req[r].x402.payer = "0xPayer"

\* C19: under every interleaving of concurrent requests, a request's
\* PaymentInfo changes only in a step of that request's own task, which
\* leaves every other request as it is: once when it is attached after
\* verification, and at most once more when its settlement returns.
C19_PaymentInfoOwnedByRequest ==
    [][\A r \in DOMAIN req :
         req'[r].x402 # req[r].x402 =>
           /\ \A o \in DOMAIN req \ {r} : req'[o] = req[o]
           /\ \/ /\ ~req[r].x402.set
                 /\ req[r].pc \in {"awaitVerify", "awaitProcess"}
                 /\ req'[r].pc = "awaitResolve"
              \/ /\ req[r].x402.set
                 /\ req[r].pc = "awaitSettle"
                 /\ req'[r].pc = "done"]_vars

\* one request is settled while another, verified, is still in flight
C19_Witness ==
    \E r, o \in DOMAIN req :
       /\ r # o
       /\ req[r].x402.transaction = "0xtx"
       /\ req[o].x402.set
       /\ req[o].pc \in {"awaitResolve", "awaitSettle"}

\* C20: an error thrown by buildPaymentRequirementsFromOptions, verifyPayment,
\* settlePayment or processSettlement never leaves the hook as an exception.
C20_CollaboratorErrorsAreCaught ==
    \A r \in DOMAIN req :
       LET q == req[r]
       IN  q.pc = "threw" =>
             /\ q.trace # <<>>
             /\ q.trace[Len(q.trace)] \notin
                  {"buildPaymentRequirementsFromOptions", "verifyPayment",
                   "settlePayment", "processSettlement"}

\* C21: paymentHookFromConfig with enabled left at true and the `schemes`
\* option left out returns a hook; the construction does not throw.
C21_OmittedSchemesConstructs ==
    (cfg.api = "paymentHookFromConfig" /\ cfg.enabled /\ ~cfg.schemes.given)
       => hook.returned

\* C22: with enabled = false the hook of paymentHook and of
\* paymentHookFromConfig hands every request to the downstream handler and
\* returns its response; no initialize is started, no scheme is registered,
\* and no route check, verification, settlement, 402 or 503 happens.
C22_DisabledPassesThrough ==
    ~cfg.enabled =>
       /\ hook.returned /\ hook.registered = 0
       /\ initState = "none"
       /\ initCalls = [http |-> 0, rs |-> 0]
       /\ initLog = <<>>
       /\ \A r \in DOMAIN req :
            LET q == req[r]
            IN  /\ q.pc \in {"idle", "awaitResolve", "done", "threw"}
                /\ q.pc # "idle" => q.trace = <<"resolve">>
                /\ q.pc = "done" => ReturnedUnmodified(q)
                /\ q.pc = "threw" => ~q.resp.set
                /\ ~q.x402.set
                /\ q.log = <<>>

\* a disabled paymentHookFromConfig hook has returned the handler's response
C22_Witness ==
    /\ cfg.api = "paymentHookFromConfig"
    /\ ~cfg.enabled
    /\ cfg.schemes.given
    /\ \E r \in DOMAIN req : req[r].pc = "done" /\ req[r].out.status = 200

\* the helper `fn` has been called and has returned or thrown
Called(fn) == call.fn = fn /\ call.done

\* t occurs in s as a run of consecutive elements
Contains(s, t) ==
    \E i \in 1..(Len(s) - Len(t) + 1) : SubSeq(s, i, i + Len(t) - 1) = t

\* the positions of the character c in s
Positions(s, c) == { i \in 1..Len(s) : s[i] = c }

\* a non-empty namespace of [a-zA-Z0-9-], one ':', a non-empty reference of
\* [a-zA-Z0-9+/=_-]
WellFormedNetwork(s) ==
    /\ Cardinality(Positions(s, ":")) = 1
    /\ LET i == CHOOSE i \in Positions(s, ":") : TRUE
       IN  /\ 1 < i /\ i < Len(s)
           /\ \A j \in 1..(i - 1) : s[j] \in Lower \cup Upper \cup Digit \cup {"-"}
           /\ \A j \in (i + 1)..Len(s) :
                 s[j] \in Lower \cup Upper \cup Digit \cup {"+", "/", "=", "_", "-"}

\* C23: validateNetwork(s) succeeds exactly when s is a non-empty namespace,
\* exactly one ':' and a non-empty reference, each of its own characters; on
\* every other string it throws an error whose message contains s.
C23_ValidateNetworkAcceptsExactlyCaip2 ==
    Called("validateNetwork") =>
       /\ ~call.result.threw <=> WellFormedNetwork(call.arg)
       /\ call.result.threw => Contains(call.result.message, call.arg)

\* an identifier with two separators has been rejected
C23_Witness ==
    /\ Called("validateNetwork")
    /\ call.arg = <<"a", ":", ":">>
    /\ call.result.threw

\* C30: a route key with exactly one space, 'METHOD /path', is parsed as the
\* upper-cased METHOD and the pattern '/path'; every other key (no space, or
\* more than one) as the method wildcard '*' and the whole key as pattern.
C30_RouteKeyParsing ==
    Called("parseRouteKey") =>
       LET key == call.arg
           sp  == Positions(key, " ")
       IN  IF Cardinality(sp) = 1
           THEN LET i == CHOOSE i \in sp : TRUE
                IN  call.result =
                      [method |-> [j \in 1..(i - 1) |->
                                     IF key[j] = "g" THEN "G" ELSE key[j]],
                       pathPattern |-> SubSeq(key, i + 1, Len(key))]
           ELSE call.result = [method |-> <<"*">>, pathPattern |-> key]

\* the key 'g /T' has been parsed as method G and pattern /T
C30_Witness ==
    /\ Called("parseRouteKey")
    /\ call.arg = <<"g", " ", "/", "T">>
    /\ call.result = [method |-> <<"G">>, pathPattern |-> <<"/", "T">>]

\* the entries of a chains configuration in the order they are gone through
AllEntries(chains) ==
    chains.evm \o (IF chains.solana.set THEN <<chains.solana>> ELSE <<>>)
               \o (IF chains.algorand.set THEN <<chains.algorand>> ELSE <<>>)

\* the positions of the entries whose network identifier is invalid
InvalidEntries(chains) ==
    { i \in 1..Len(AllEntries(chains)) : ~WellFormedNetwork(AllEntries(chains)[i].network) }

\* 0 <= p <= 1e9
InRange(p) ==
    /\ p.kind = "finite"
    /\ ~p.neg \/ (p.int = 0 /\ \A i \in 1..Len(p.frac) : p.frac[i] = 0)
    /\ p.int < 1000000000
         \/ (p.int = 1000000000 /\ \A i \in 1..Len(p.frac) : p.frac[i] = 0)

\* C24: if an entry of the chains configuration (EVM, Solana or Algorand) has
\* an invalid network identifier, buildPaymentOptions throws the validation
\* error of the first such entry in iteration order and returns no options,
\* also when earlier entries were valid.
C24_FirstInvalidNetworkAbortsCall ==
    (/\ Called("buildPaymentOptions")
     /\ InRange(call.arg.priceUsd)
     /\ InvalidEntries(call.arg.chains) # {}) =>
       LET bad   == InvalidEntries(call.arg.chains)
           first == CHOOSE i \in bad : \A k \in bad : i <= k
           net   == AllEntries(call.arg.chains)[first].network
       IN  /\ call.result.threw
           /\ call.result.message = networkValidationError(net)
           /\ call.result.options = <<>>

\* a valid EVM entry followed by an invalid one: the call threw
C24_Witness ==
    /\ Called("buildPaymentOptions")
    /\ Len(call.arg.chains.evm) = 2
    /\ InvalidEntries(call.arg.chains) = {2}
    /\ call.result.threw
    /\ call.result.options = <<>>

\* C25: for a valid chains configuration buildPaymentOptions returns
\* len(evm) + (solana ? 1 : 0) + (algorand ? 1 : 0) options: the EVM entries
\* in array order, then Solana, then Algorand, each with the network and payTo
\* of its entry, scheme 'exact' and one and the same price string.
C25_OptionsFollowConfiguration ==
    (/\ Called("buildPaymentOptions")
     /\ InRange(call.arg.priceUsd)
     /\ InvalidEntries(call.arg.chains) = {}) =>
       LET c     == call.arg.chains
           n     == Len(c.evm)
           o     == call.result.options
           ns    == IF c.solana.set THEN 1 ELSE 0
           na    == IF c.algorand.set THEN 1 ELSE 0
           Of(e, i) == /\ o[i].network = e.network
                       /\ o[i].payTo = e.payTo
                       /\ o[i].scheme = "exact"
                       /\ o[i].price = o[1].price
                       /\ DOMAIN o[i] = {"scheme", "price", "network", "payTo"}
       IN  /\ ~call.result.threw
           /\ Len(o) = n + ns + na
           /\ \A i \in 1..n : Of(c.evm[i], i)
           /\ c.solana.set => Of(c.solana, n + 1)
           /\ c.algorand.set => Of(c.algorand, n + ns + 1)

\* two EVM entries, Solana and Algorand: four options
C25_Witness ==
    /\ Called("buildPaymentOptions")
    /\ Len(call.arg.chains.evm) = 2
    /\ call.arg.chains.evm[1] # call.arg.chains.evm[2]
    /\ call.arg.chains.solana.set
    /\ call.arg.chains.algorand.set
    /\ Len(call.result.options) = 4

\* the digit a character stands for
DigitOf(c) == CHOOSE d \in 0..9 : DigitChars[d + 1] = c

RECURSIVE NumberOf(_)
NumberOf(chars) ==
    IF chars = <<>> THEN 0
    ELSE 10 * NumberOf(SubSeq(chars, 1, Len(chars) - 1)) + DigitOf(chars[Len(chars)])

\* a digit sequence without its trailing zeros
StripZeros(ds) ==
    LET nz == { i \in 1..Len(ds) : ds[i] # 0 }
    IN  IF nz = {} THEN <<>>
        ELSE SubSeq(ds, 1, CHOOSE i \in nz : \A k \in nz : k <= i)

\* digits with at most one point between them, no 'e', no zero at the end
\* of a fraction, no point at the end
PlainDecimal(t) ==
    /\ Len(t) >= 1
    /\ \A i \in 1..Len(t) : t[i] \in Digit \cup {"."}
    /\ Cardinality(Positions(t, ".")) <= 1
    /\ t[1] # "." /\ t[Len(t)] # "."
    /\ Positions(t, ".") # {} => t[Len(t)] # "0"

\* the number a plain decimal stands for: integer part and fractional digits
ParseDecimal(t) ==
    LET dots == Positions(t, ".")
        d    == IF dots = {} THEN Len(t) + 1 ELSE CHOOSE i \in dots : TRUE
        fr   == SubSeq(t, d + 1, Len(t))
    IN  [int |-> NumberOf(SubSeq(t, 1, d - 1)),
         frac |-> StripZeros([i \in 1..Len(fr) |-> DigitOf(fr[i])])]

\* C26: for every price p with 0 <= p <= 1e9 the price string of the options
\* is '$' and a plain decimal (no 'e'/'E', no trailing zeros behind the point,
\* no point at the end) that parses back to the value p.
C26_PriceStringRoundTrips ==
    (/\ Called("buildPaymentOptions")
     /\ InRange(call.arg.priceUsd)
     /\ call.result.options # <<>>) =>
       LET str == call.result.options[1].price
       IN  /\ str[1] = "$"
           /\ PlainDecimal(Tail(str))
           /\ ParseDecimal(Tail(str)) =
                [int |-> call.arg.priceUsd.int, frac |-> StripZeros(call.arg.priceUsd.frac)]

RangeErrors ==
    { <<"Price must be non-negative">>,
      <<"Price exceeds maximum supported value of $1000000000">> }

\* C27: buildPaymentOptions throws a range error for every price outside
\* [0, 1e9] and for no price inside it (0 and 1e9 included); a price outside
\* is never made into an option, and the range error comes before any network
\* identifier is looked at.
C27_OutOfRangePriceFails ==
    Called("buildPaymentOptions") =>
       /\ ~InRange(call.arg.priceUsd) =>
             /\ call.result.threw
             /\ call.result.message \in RangeErrors
             /\ call.result.options = <<>>
       /\ InRange(call.arg.priceUsd) => call.result.message \notin RangeErrors

\* C28: getEnabledChainNames returns the families with a non-empty
\* configuration (evm array non-empty, solana non-null, algorand non-null) as
\* a subsequence of <<evm, solana, algorand>>; for a valid configuration it
\* is empty exactly when buildPaymentOptions returns no option.
C28_EnabledChainNames ==
    Called("getEnabledChainNames") =>
       LET c == call.arg
           Enabled(name) == CASE name = "evm" -> c.evm # <<>>
                              [] name = "solana" -> c.solana # NoChain
                              [] name = "algorand" -> c.algorand # NoChain
       IN  /\ call.result = SelectSeq(<<"evm", "solana", "algorand">>, Enabled)
           /\ InvalidEntries(c) = {} =>
                (call.result = <<>> <=> buildPaymentOptions(c, Cent) = NoOptions)

\* Solana alone is configured
C28_Witness ==
    /\ Called("getEnabledChainNames")
    /\ call.arg.evm = <<>>
    /\ call.arg.solana.set
    /\ ~call.arg.algorand.set
    /\ call.result = <<"solana">>

\* C29: getQueryParams maps each key occurring once to its string value and
\* each repeated key to the array of its values in first-seen order; for every
\* name getQueryParam(name) equals getQueryParams()[name] (absent when the key
\* does not occur); the URL is the same after the calls.
C29_QueryParamsAgree ==
    Called("getQueryParams") =>
       LET params == call.result.params
       IN  /\ DOMAIN params = { call.arg[i].key : i \in DOMAIN call.arg }
           /\ \A n \in DOMAIN params :
                params[n] = IF Len(getAll(call.arg, n)) = 1
                            THEN String(getAll(call.arg, n)[1])
                            ELSE Array(getAll(call.arg, n))
           /\ \A n \in QueryNames :
                call.result.param[n] =
                   IF n \in DOMAIN params THEN params[n] ELSE Undefined
           /\ call.result.url = call.arg

\* C31: a route pattern matches a path exactly when the two are equal, or the
\* pattern ends with '*' and the path starts with the pattern without its
\* last character; '*' alone matches every path and a pattern that does not
\* end with '*' matches nothing but itself.
C31_PathMatching ==
    Called("pathMatches") =>
       LET pattern == call.arg.pattern
           path    == call.arg.pathname
           n       == Len(pattern)
           wild    == n >= 1 /\ pattern[n] = "*"
       IN  /\ call.result <=>
                \/ pattern = path
                \/ /\ wild
                   /\ Len(path) >= n - 1
                   /\ \A i \in 1..(n - 1) : path[i] = pattern[i]
           /\ pattern = <<"*">> => call.result
           /\ (~wild /\ pattern # path) => ~call.result

\* 'a/*' against 'a/': the path is the stripped pattern itself
C31_Witness ==
    /\ Called("pathMatches")
    /\ call.arg.pattern = <<"a", "/", "*">>
    /\ call.arg.pathname = <<"a", "/">>
    /\ call.result

\* the dynamic entries of the group of method m whose pattern matches the
\* request q, as positions in the configured route map
Matching(q, m) ==
    { i \in 1..Len(cfg.routes) :
        /\ cfg.routes[i].dynamic
        /\ parseRouteKey(cfg.routes[i].key).method = m
        /\ pathMatches(parseRouteKey(cfg.routes[i].key).pathPattern, q.path) }

First(S) == CHOOSE i \in S : \A k \in S : i <= k

\* the entry the lookup is to return for the request q, 0 for none
Expected(q) ==
    IF Matching(q, q.method) # {} THEN First(Matching(q, q.method))
    ELSE IF Matching(q, STAR) # {} THEN First(Matching(q, STAR))
    ELSE 0

\* how often `name` was called for the request q
Calls(q, name) == Cardinality({ i \in DOMAIN q.trace : q.trace[i] = name })

\* C32: the lookup returns the first path-matching entry, in configuration
\* order, among the entries of the request's method, and only if there is
\* none the first path-matching wildcard-method entry; a matching entry of
\* the method wins over a matching wildcard-method entry whatever the order
\* of configuration; at most one policy function is evaluated per request.
C32_LookupOrder ==
    \A r \in DOMAIN req :
       LET q == req[r]
       IN  /\ Calls(q, "accepts") <= 1
           /\ Calls(q, "accepts") = 1 => q.dyn # 0 /\ q.dyn = Expected(q)
           /\ (/\ cfg.api # "paymentHookFromHTTPServer" /\ cfg.enabled
               /\ q.trace # <<>>
               /\ Calls(q, "accepts") = 0) => Expected(q) = 0

\* a GET entry was taken although a wildcard-method entry that matches was
\* configured before it
C32_Witness ==
    \E r \in DOMAIN req :
       /\ req[r].dyn = 2
       /\ Matching(req[r], STAR) = {1}
       /\ Matching(req[r], req[r].method) = {2, 3}
       /\ Calls(req[r], "accepts") = 1

\* the steps of a request on a dynamic route, in the order of the lifecycle
Lifecycle ==
    << "accepts", "buildPaymentRequirementsFromOptions", "extractPaymentPayload",
       "findMatchingRequirements", "verifyPayment", "locals.x402", "resolve",
       "settlePayment" >>

IsPrefix(s, t) == Len(s) <= Len(t) /\ \A i \in 1..Len(s) : s[i] = t[i]

\* the request is on a dynamic route
OnDynamicRoute(q) == q.dyn # 0

\* C33 as stated: on a dynamic route the steps accepts, requirement
\* building, proof extraction, requirement matching, verification, attaching
\* PaymentInfo, handler and settlement occur in this order, each at most
\* once, and a step is reached only when every earlier step was completed.
C33_LifecycleInOrder ==
    \A r \in DOMAIN req :
       OnDynamicRoute(req[r]) => IsPrefix(req[r].trace, Lifecycle)

\* C33 amended: the steps occur in the order of the lifecycle, each at most
\* once and none skipped, except that a policy function answering null or an
\* empty list is followed by the handler at once and by no other step; a
\* request that has its response takes no further step.
C33_LifecycleInOrderOrFree ==
    /\ [](\A r \in DOMAIN req :
            LET q == req[r]
            IN  OnDynamicRoute(q) =>
                  /\ q.trace # <<>>
                  /\ IF q.opts \in {"null", "empty"}
                     THEN q.trace = <<"accepts", "resolve">>
                     ELSE IsPrefix(q.trace, Lifecycle))
    /\ [][\A r \in DOMAIN req :
             req[r].pc \in {"done", "threw"} => req'[r] = req[r]]_vars

\* a paying request went through all eight steps
C33_Witness ==
    \E r \in DOMAIN req : OnDynamicRoute(req[r]) /\ req[r].trace = Lifecycle

\* C34: the event given to accepts() shows a clone of the request and, for
\* every other property, the value of the original event; reading the body
\* inside accepts() leaves the body of the original request unconsumed, and
\* the downstream handler is given the original event.
C34_AcceptsSeesCloneOnly ==
    (Called("accepts") /\ ~call.result.threw) =>
       /\ \A p \in call.arg.reads :
             IF p = "request"
             THEN call.result.seen[p] # OriginalEvent.request
             ELSE call.result.seen[p] = OriginalEvent[p]
       /\ OriginalEvent.request \notin call.result.consumed
       /\ call.result.handlerGets = "event"

\* the policy function read the body of the request it was given
C34_Witness ==
    /\ Called("accepts")
    /\ call.arg.readsBody
    /\ call.arg.reads = EventProps
    /\ call.result.consumed # {}
    /\ ~call.result.threw

\* C35: a paymentHook without routes is in state success from construction
\* on, has started no initialize and no request waits; with at least one
\* static route only the HTTP resource server's initialize was started; with
\* dynamic routes only, only the resource server's; the state is pending only
\* when such an operation was started.
C35_InitAtConstruction ==
    IsPaymentHook =>
       LET static  == \E i \in 1..Len(cfg.routes) : ~cfg.routes[i].dynamic
           dynamic == \E i \in 1..Len(cfg.routes) : cfg.routes[i].dynamic
       IN  /\ cfg.routes = <<>> =>
                /\ initState = "success"
                /\ initCalls = [http |-> 0, rs |-> 0]
                /\ \A r \in DOMAIN req : req[r].pc # "awaitInit"
           /\ static => initCalls = [http |-> 1, rs |-> 0]
           /\ (dynamic /\ ~static) => initCalls = [http |-> 0, rs |-> 1]
           /\ initState = "pending" => initCalls.http + initCalls.rs = 1

\* static and dynamic routes together: the HTTP resource server's initialize
\* is outstanding and a request waits for it
C35_Witness ==
    /\ IsPaymentHook
    /\ \E i \in 1..Len(cfg.routes) : ~cfg.routes[i].dynamic
    /\ \E i \in 1..Len(cfg.routes) : cfg.routes[i].dynamic
    /\ initState = "pending"
    /\ \E r \in DOMAIN req : req[r].pc = "awaitInit"

\* what was logged for the request q with the message msg
Logged(q, msg) == \E i \in DOMAIN q.log : q.log[i][1] = msg

\* C36: when the handler's 2xx response has its body consumed and the
\* settlement succeeds, the hook logs the body-consumed warning and returns a
\* settled response with the handler's status and the settlement header(s);
\* no settlement error is logged and the header is not dropped.
C36_ConsumedBodyStillSettled ==
    \A r \in DOMAIN req :
       LET q == req[r]
       IN  (q.resp.set /\ q.resp.bodyUsed /\ q.settled = "success") =>
             /\ Logged(q, LOG_BODY_CONSUMED)
             /\ ~Logged(q, LOG_SETTLEMENT_ERROR)
             /\ q.out.kind = "settled"
             /\ q.out.status = q.resp.status
             /\ q.out.hdrs # {}

\* C37: as long as the handler of a verified request has produced no
\* response (it has not answered yet, or it threw), no settlement is
\* attempted and PaymentInfo.transaction is unset, on dynamic and static
\* routes; a handler that threw ends the request.
C37_NoResponseNoSettlement ==
    \A r \in DOMAIN req :
       LET q == req[r]
       IN  (q.mode \in {"dynamic", "static"} /\ ~q.resp.set) =>
             /\ Calls(q, "settlePayment") = 0
             /\ Calls(q, "processSettlement") = 0
             /\ q.settled = ""
             /\ q.x402.transaction = UNDEF
             /\ q.pc \in {"awaitResolve", "threw"}

\* the handler of a request verified on a static route threw
C37_Witness ==
    \E r \in DOMAIN req :
       /\ req[r].mode = "static"
       /\ req[r].x402.set
       /\ ~req[r].resp.set
       /\ req[r].pc = "threw"

\* the payment-error result of the request q is what the hook returned, and
\* the handler was not called
ErrorResultReturned(q) ==
    /\ q.pc = "done"
    /\ q.out.kind = "paymentError"
    /\ q.out.status = 402
    /\ q.out.hdrs = {"result.headers"}
    /\ q.out.body = CASE q.pbody \in {"undefined", "null"} -> "empty"
                      [] q.pbody = "string" -> "string"
                      [] OTHER -> "JSON.stringify"
    /\ Calls(q, "resolve") = 0

\* C38 as stated: on the static path, when requiresPayment is true, the
\* handler is invoked only if processHTTPRequest returned 'payment-verified';
\* a 'payment-error' result is returned with its status, headers and body
\* ('' for undefined or null, the string, else its JSON encoding) and the
\* handler is not invoked.
C38_HandlerOnlyIfVerified ==
    \A r \in DOMAIN req :
       LET q == req[r]
       IN  Calls(q, "processHTTPRequest") = 1 =>
             /\ Calls(q, "resolve") > 0 => q.ptype = "payment-verified"
             /\ q.ptype = "payment-error" => ErrorResultReturned(q)

\* C38 amended: the handler is invoked only if processHTTPRequest returned
\* 'payment-verified' or 'no-payment-required'; a 'payment-error' result is
\* returned as stated and a rejected call invokes no handler.
C38_HandlerOnlyIfVerifiedOrFree ==
    \A r \in DOMAIN req :
       LET q == req[r]
       IN  Calls(q, "processHTTPRequest") = 1 =>
             /\ Calls(q, "requiresPayment") = 1
             /\ Calls(q, "resolve") <= 1
             /\ Calls(q, "resolve") = 1 =>
                   q.ptype \in {"payment-verified", "no-payment-required"}
             /\ q.mode = "static" <=> q.ptype = "payment-verified"
             /\ q.ptype = "payment-error" => ErrorResultReturned(q)

\* a payment-error result with a null body was returned
C38_Witness ==
    \E r \in DOMAIN req :
       /\ req[r].ptype = "payment-error"
       /\ req[r].pbody = "null"
       /\ req[r].out.body = "empty"
       /\ req[r].pc = "done"

\* C39: when the initialization completes and every call made for a request
\* returns, every request that has reached the hook gets a response, the
\* requests suspended on initPromise included, and gets just that one; a
\* suspended request stays suspended for as long as the state is pending.
\* A request that has arrived never counts as not sent again, so "again and
\* again not sent or answered" is "answered at some time after it arrived".
C39_EveryRequestIsAnswered ==
    /\ \A r \in 1..LiveReq :
          []<>(\/ req[r].pc = "idle"
               \/ req[r].pc = "done" /\ req[r].out.kind # "none")
    /\ [][\A r \in DOMAIN req :
             /\ req[r].pc # "idle" => req'[r].pc # "idle"
             /\ req[r].pc = "done" => req'[r] = req[r]
             /\ (req[r].pc = "awaitInit" /\ initState' = "pending")
                  => req'[r].pc = "awaitInit"]_vars

\* all requests have their response, one of them after a settlement, on a
\* hook that had to be initialized
C39_Witness ==
    /\ initState = "success"
    /\ initCalls.http + initCalls.rs = 1
    /\ \A r \in DOMAIN req : req[r].pc = "done"
    /\ \E r \in DOMAIN req : req[r].out.kind = "settled"

====
